---- MODULE Spec2Model ----
(***************************************************************************)
(* DicoGIS: the folder-walk classifier (DicoGIS.ligeofiles and the older   *)
(* DicoShapes.ligeofiles), the raster reader (InfosRasters), the           *)
(* geospatial PDF reader (ReadGeoPDF) and the erratum builders.            *)
(*                                                                         *)
(* Strings are sequences of one-character strings, so that lower(),        *)
(* splitext(), slicing and the byte-wise ordering used by list.sort() are  *)
(* computed the way Python computes them.  The file system is the POSIX    *)
(* one (platform 'linux2', src/DicoGIS.py:122): names are case-sensitive.  *)
(***************************************************************************)
EXTENDS Integers, Sequences, FiniteSets, TLC

(***************************************************************************)
(* Bounds of the model.                                                    *)
(***************************************************************************)
\* directory entries (files and sub-directories) the scanned tree may hold
MaxEntries == 5
\* folder choices (setpathtarg calls), and launches (process calls), in one session
MaxRuns == 2
\* bands of a raster dataset
MaxBands == 3
\* internal vector layers of a geospatial PDF; layers of a database connection
MaxLayers == 2
\* resources the candidate lists of a scan hold together
MaxScan == 3
\* fields of a vector layer
MaxFields == 2
\* entries of the tree the threads walk under fair scheduling
MaxTree == 1

(***************************************************************************)
(* Characters and strings.                                                 *)
(***************************************************************************)
\* the characters of the modelled names, in ascending byte order
AsciiOrder ==
    << " ", ".", "/", "2", "A", "B", "D", "F", "G", "H", "I", "J", "M", "P", "R",
       "S", "T", "X", "_",
       "a", "b", "c", "d", "e", "f", "g", "h", "i", "j", "k", "l", "m",
       "n", "o", "p", "r", "s", "t", "w", "x" >>

CharSet == { AsciiOrder[i] : i \in DOMAIN AsciiOrder }

\* rank of a character in byte order
Ord == [ c \in CharSet |-> CHOOSE i \in DOMAIN AsciiOrder : AsciiOrder[i] = c ]

\* str.lower() on one character
LowerChar ==
    [ c \in CharSet |->
        CASE c = "A" -> "a" [] c = "B" -> "b" [] c = "D" -> "d"
          [] c = "F" -> "f" [] c = "G" -> "g" [] c = "H" -> "h"
          [] c = "I" -> "i" [] c = "J" -> "j" [] c = "M" -> "m"
          [] c = "P" -> "p" [] c = "R" -> "r" [] c = "S" -> "s"
          [] c = "T" -> "t" [] c = "X" -> "x"
          [] OTHER -> c ]

\* str.lower()
Lower(s) == [ i \in DOMAIN s |-> LowerChar[s[i]] ]

\* Python's s < t on byte strings
StrLess(s, t) ==
    \E i \in 1..(Len(t)) :
        /\ i <= Len(s) + 1
        /\ \A j \in 1..(i - 1) : s[j] = t[j]
        /\ \/ i = Len(s) + 1
           \/ Ord[s[i]] < Ord[t[i]]

\* a list left in the order of its appends
PySort_Skipped(li) == li

\* list.sort(): ascending order of the elements
PySort(li) == SortSeq(li, StrLess)

\* s.rfind(c): the last index of c in s, 0 when absent (Python: -1)
RFind(s, c) ==
    LET at == { i \in DOMAIN s : s[i] = c }
    IN  IF at = {} THEN 0 ELSE CHOOSE i \in at : \A j \in at : j <= i

\* os.path.splitext(p): << root, ext >>; ext is empty or begins with a period,
\* leading periods of the last component are not an extension
splitext(p) ==
    LET sepIndex == RFind(p, "/")
        dotIndex == RFind(p, ".")
    IN  IF /\ dotIndex > sepIndex
           /\ \E k \in (sepIndex + 1)..(dotIndex - 1) : p[k] # "."
        THEN << SubSeq(p, 1, dotIndex - 1), SubSeq(p, dotIndex, Len(p)) >>
        ELSE << p, << >> >>

\* os.path.join(a, b) for a relative second component
join(a, b) ==
    IF a = << >> THEN b
    ELSE IF a[Len(a)] = "/" THEN a \o b ELSE a \o << "/" >> \o b

\* os.path.basename(p) and os.path.dirname(p)
basename(p) == SubSeq(p, RFind(p, "/") + 1, Len(p))

dirname(p) ==
    LET head == SubSeq(p, 1, RFind(p, "/"))
    IN  IF head # << >> /\ \E i \in DOMAIN head : head[i] # "/"
        THEN SubSeq(head, 1, Len(head) - 1)
        ELSE head

\* p[:-4] and p[-4:]
DropLast4(p) == SubSeq(p, 1, Len(p) - 4)

Last4(p) == SubSeq(p, Len(p) - 3, Len(p))

(***************************************************************************)
(* The extensions the classifiers test.                                    *)
(***************************************************************************)
EXT_shp == << ".", "s", "h", "p" >>
EXT_dbf == << ".", "d", "b", "f" >>
EXT_DBF == << ".", "D", "B", "F" >>
EXT_shx == << ".", "s", "h", "x" >>
EXT_SHX == << ".", "S", "H", "X" >>
EXT_prj == << ".", "p", "r", "j" >>
EXT_PRJ == << ".", "P", "R", "J" >>
EXT_tab == << ".", "t", "a", "b" >>
EXT_dat == << ".", "d", "a", "t" >>
EXT_DAT == << ".", "D", "A", "T" >>
EXT_map == << ".", "m", "a", "p" >>
EXT_MAP == << ".", "M", "A", "P" >>
EXT_id == << ".", "i", "d" >>
EXT_ID == << ".", "I", "D" >>
EXT_kml == << ".", "k", "m", "l" >>
EXT_gml == << ".", "g", "m", "l" >>
EXT_geojson == << ".", "g", "e", "o", "j", "s", "o", "n" >>
EXT_gdb == << ".", "g", "d", "b" >>

\* self.li_raster_formats
li_raster_formats ==
    { << ".", "e", "c", "w" >>, << ".", "t", "i", "f" >>, << ".", "j", "p", "2" >> }

(***************************************************************************)
(* The directory trees of the model: the root folder /r, and any set of at *)
(* most MaxEntries entries out of the files and sub-directories below.     *)
(***************************************************************************)
Root == << "/", "r" >>
SubDir == Root \o << "/", "d" >>

DirUniverse ==
    { SubDir,
      Root \o << "/", "g", ".", "g", "d", "b" >>,
      Root \o << "/", "e", ".", "G", "D", "B" >> }

FileUniverse ==
    { Root \o << "/", "a", ".", "s", "h", "p" >>,
      Root \o << "/", "a", ".", "S", "H", "P" >>,
      Root \o << "/", "a", ".", "d", "b", "f" >>,
      Root \o << "/", "a", ".", "D", "b", "f" >>,
      Root \o << "/", "a", ".", "s", "h", "x" >>,
      Root \o << "/", "a", ".", "p", "r", "j" >>,
      Root \o << "/", "c", ".", "t", "i", "f" >>,
      Root \o << "/", "j", ".", "g", "e", "o", "j", "s", "o", "n" >>,
      SubDir \o << "/", "t", ".", "t", "a", "b" >>,
      SubDir \o << "/", "t", ".", "d", "a", "t" >>,
      SubDir \o << "/", "t", ".", "m", "a", "p" >>,
      SubDir \o << "/", "t", ".", "i", "d" >>,
      SubDir \o << "/", "k", ".", "k", "m", "l" >>,
      SubDir \o << "/", "m", ".", "g", "m", "l" >> }

\* the folder names the folder dialog can return: a folder, or "" on cancel
FolderChoices == { Root, << >> }

VARIABLES
    app,            \* which program runs: "DicoGIS" or "DicoShapes"
    fsFiles,        \* the regular files of the tree (full paths)
    fsDirs,         \* the directories of the tree below the root (full paths)
    li_shp, li_tab, li_kml, li_gml, li_geoj, li_raster, li_gdb,
    li_kml_defined, \* self.li_kml, li_gml, li_geoj exist as attributes
    li_is_tuple,    \* li_shp and li_tab are tuples (after "tupling")
    num_folders,
    target,         \* the text of the target entry
    output,         \* the text of the output entry (without prefix and date)
    browsetarg,     \* state of the browse button
    val,            \* state of the launch button
    status,         \* the status label
    pc,             \* position of the ligeofiles call
    foldertarget,   \* argument of the running ligeofiles call
    walkStack,      \* directories os.walk has still to yield, next first
    runs,           \* folder choices made so far
    snaps,          \* what every completed ligeofiles call left behind
    exc             \* exception that ended the last call, "none" if it returned

classifierVars ==
    << app, fsFiles, fsDirs, li_shp, li_tab, li_kml, li_gml, li_geoj,
       li_raster, li_gdb, li_kml_defined, li_is_tuple, num_folders, target,
       output, browsetarg, val, status, pc, foldertarget, walkStack, runs, snaps, exc >>

VARIABLES
    dico,           \* the record handed to the reader or builder called last
    dico_bands,     \* the band dictionary handed to InfosRasters
    dico_before,    \* dico as it was when the last builder call began
    op,             \* the reader or builder called last, "none" before any call
    gdalOpen,       \* answer of gdal.Open to the last reader: "ok", "none", "raises"
    ogrOpen,        \* answer of ogr.Open to the last reader, "unasked" if not called
    rexc,           \* exception that left the last reader or builder call
    srs_flags,      \* the category tests that answer 1 for the spatial reference
                    \* handed to infos_geom when it is called on its own
    held            \* the native dataset handles the object of the last reader
                    \* still refers to when its constructor is left

readerVars ==
    << dico, dico_bands, dico_before, op, gdalOpen, ogrOpen, rexc, srs_flags, held >>

VARIABLES
    typo,           \* the kind of source chosen: 1 files, 2 database
    opt,            \* the formats whose option is checked
    scan_pc,        \* position of the process call
    scan_todo,      \* what the loops of the running call have still to visit
    line_vectors,   \* line rank of the next row of the vectors sheet
    line_rasters,   \* line rank of the next row of the rasters sheet
    feuy1,          \* the rows of the vectors sheet, by line
    feuy2,          \* the rows of the rasters sheet, by line
    read_log,       \* the reader calls of the last process call, in order: the
                    \* resource, the keys the reader found, the error it recorded
    scan_exc,       \* exception that left the last process call
    self_dico_layer,    \* self.dico_layer
    self_dico_fields,   \* self.dico_fields
    launches,       \* presses of the launch button so far
    dico_err        \* self.dico_err: the encoding notes, by layer name

driverVars ==
    << typo, opt, scan_pc, scan_todo, line_vectors, line_rasters, feuy1, feuy2,
       read_log, scan_exc, self_dico_layer, self_dico_fields, launches, dico_err >>

VARIABLES
    threads,        \* the ligeofiles threads setpathtarg has started, in the
                    \* order of their start: position, argument, directories
                    \* os.walk has still to yield
    legacy,         \* the entries of the tree (full paths) whose name holds,
                    \* besides the characters shown, a byte outside ASCII
    stdout          \* what sys.stdout can encode: "utf8", or "ascii" (no
                    \* console, output piped, C locale)

threadVars == << threads, legacy, stdout >>

vars == << classifierVars, readerVars, driverVars, threadVars >>

(***************************************************************************)
(* The file system as os.walk and os.path see it.                          *)
(***************************************************************************)
isfile(p) == p \in fsFiles

isdir(p) == p = Root \/ p \in fsDirs

\* os.listdir(top) split as os.walk splits it: names of the sub-directories
\* and names of the other entries
SubDirNames(top) == { basename(p) : p \in { q \in fsDirs : dirname(q) = top } }

FileNames(top) == { basename(p) : p \in { q \in fsFiles : dirname(q) = top } }

\* os.listdir returns the names of a directory in arbitrary order: a listing
\* is a fixed enumeration of the names, rearranged by any permutation
RECURSIVE Orders(_)
Orders(S) ==
    IF S = {} THEN { << >> }
    ELSE UNION { { << x >> \o o : o \in Orders(S \ {x}) } : x \in S }

ListingOrders == [ n \in 0..(MaxEntries + 1) |-> Orders(1..n) ]

RECURSIVE Enumerated(_)
Enumerated(S) ==
    IF S = {} THEN << >>
    ELSE LET x == CHOOSE y \in S : TRUE IN << x >> \o Enumerated(S \ {x})

Rearranged(names, perm) == [ i \in DOMAIN names |-> names[perm[i]] ]

(***************************************************************************)
(* DicoGIS.ligeofiles: the tests made on one directory entry.              *)
(***************************************************************************)
\* the path the loop works on; unicode() succeeds on every name of CharSet,
\* so the latin1 fallback is not taken
full_path_of(root, name) == join(root, name)

\* os.path.abspath() of a path that is absolute and normalised already
abspath(p) == IF p # << >> /\ p[1] = "/" THEN p ELSE join(Root, p)

\* the directory test of File Geodatabases
is_gdb(full_path) == Lower(Last4(full_path)) = EXT_gdb

\* the sidecar tests of a shapefile without the one of line 531
shp_sidecars_NoPrj(full_path) ==
    LET stem == DropLast4(full_path)
    IN  /\ isfile(stem \o EXT_dbf) \/ isfile(stem \o EXT_DBF)
        /\ isfile(stem \o EXT_shx) \/ isfile(stem \o EXT_SHX)

\* the three sidecar tests of a shapefile
shp_sidecars(full_path) ==
    LET stem == DropLast4(full_path)
    IN  /\ isfile(stem \o EXT_dbf) \/ isfile(stem \o EXT_DBF)
        /\ isfile(stem \o EXT_shx) \/ isfile(stem \o EXT_SHX)
        /\ isfile(stem \o EXT_prj) \/ isfile(stem \o EXT_PRJ)

\* the three sidecar tests of a MapInfo table
tab_sidecars(full_path) ==
    LET stem == DropLast4(full_path)
    IN  /\ isfile(stem \o EXT_dat) \/ isfile(stem \o EXT_DAT)
        /\ isfile(stem \o EXT_map) \/ isfile(stem \o EXT_MAP)
        /\ isfile(stem \o EXT_id) \/ isfile(stem \o EXT_ID)

\* the if/elif chain: the list a file is appended to, "none" for continue
bucket(full_path) ==
    LET ext == splitext(Lower(full_path))[2]
    IN  IF Lower(ext) = EXT_shp /\ shp_sidecars(full_path) THEN "shp"
        ELSE IF ext = EXT_tab /\ tab_sidecars(full_path) THEN "tab"
        ELSE IF ext = EXT_kml THEN "kml"
        ELSE IF ext = EXT_gml THEN "gml"
        ELSE IF ext = EXT_geojson THEN "geoj"
        ELSE IF ext \in li_raster_formats THEN "raster"
        ELSE "none"

\* the list every file name of one directory goes to
buckets(root) ==
    [ name \in FileNames(root) |-> bucket(full_path_of(root, name)) ]

\* the paths of one directory, in listing order, that go to list b
appended(root, files, kind, b) ==
    LET goes(name) == kind[name] = b
        names == SelectSeq(files, goes)
    IN  [ i \in DOMAIN names |-> full_path_of(root, names[i]) ]

\* the File Geodatabases among the sub-directories, in listing order
appended_gdb(root, dirs) ==
    LET paths == [ i \in DOMAIN dirs |-> full_path_of(root, dirs[i]) ]
        abs == [ i \in DOMAIN paths |-> abspath(paths[i]) ]
    IN  SelectSeq(abs, is_gdb)

\* what a completed call leaves behind
Snapshot ==
    [ folder |-> foldertarget, shp |-> li_shp, tab |-> li_tab, kml |-> li_kml,
      gml |-> li_gml, geoj |-> li_geoj, raster |-> li_raster, gdb |-> li_gdb,
      num_folders |-> num_folders ]

(***************************************************************************)
(* DicoGIS: the browse button and the ligeofiles thread.                   *)
(* This specification runs the traversals of a session one after another:  *)
(* a folder is chosen only when no ligeofiles call is running.             *)
(***************************************************************************)
SetPathTarg(foldername) ==
    /\ app = "DicoGIS"
    /\ browsetarg = "ACTIVE"
    /\ pc = "idle"
    /\ runs < MaxRuns
    /\ target' = IF foldername # << >> THEN foldername ELSE target
    /\ output' = basename(target')
    /\ foldertarget' = foldername
    /\ pc' = "reset"
    /\ runs' = runs + 1
    /\ UNCHANGED << readerVars, driverVars, threadVars >>
    /\ UNCHANGED << app, fsFiles, fsDirs, li_shp, li_tab, li_kml, li_gml,
                    li_geoj, li_raster, li_gdb, li_kml_defined, li_is_tuple,
                    num_folders, browsetarg, val, status, walkStack, snaps,
                    exc >>

\* lines 491-502: the lists are reset, the browse button disabled
LG_Reset ==
    /\ app = "DicoGIS"
    /\ pc = "reset"
    /\ li_shp' = << >>
    /\ li_tab' = << >>
    /\ li_kml' = << >>
    /\ li_gml' = << >>
    /\ li_geoj' = << >>
    /\ li_raster' = << >>
    /\ li_kml_defined' = TRUE
    /\ li_is_tuple' = FALSE
    /\ browsetarg' = "DISABLED"
    /\ status' = [ text |-> "gui_prog1", counts |-> << >> ]
    /\ walkStack' = IF isdir(foldertarget) THEN << foldertarget >> ELSE << >>
    /\ pc' = "walk"
    /\ UNCHANGED << readerVars, driverVars, threadVars >>
    /\ UNCHANGED << app, fsFiles, fsDirs, li_gdb, num_folders, target, output,
                    val, foldertarget, runs, snaps, exc >>

\* lines 503-559: one iteration of the os.walk loop
LG_VisitDir ==
    /\ app = "DicoGIS"
    /\ pc = "walk"
    /\ walkStack # << >>
    /\ \E root \in { Head(walkStack) } :
       \E kind \in { buckets(root) } :
       \E dirnames \in { Enumerated(SubDirNames(root)) },
          filenames \in { Enumerated(FileNames(root)) } :
       \E pd \in ListingOrders[Len(dirnames)], pf \in ListingOrders[Len(filenames)] :
       \E dirs \in { Rearranged(dirnames, pd) }, files \in { Rearranged(filenames, pf) } :
             /\ num_folders' = num_folders + Len(dirs)
             /\ li_gdb' = li_gdb \o appended_gdb(root, dirs)
             /\ li_shp' = li_shp \o appended(root, files, kind, "shp")
             /\ li_tab' = li_tab \o appended(root, files, kind, "tab")
             /\ li_kml' = li_kml \o appended(root, files, kind, "kml")
             /\ li_gml' = li_gml \o appended(root, files, kind, "gml")
             /\ li_geoj' = li_geoj \o appended(root, files, kind, "geoj")
             /\ li_raster' = li_raster \o appended(root, files, kind, "raster")
             /\ walkStack' = [ i \in DOMAIN dirs |-> join(root, dirs[i]) ]
                                \o Tail(walkStack)
    /\ UNCHANGED << readerVars, driverVars, threadVars >>
    /\ UNCHANGED << app, fsFiles, fsDirs, li_kml_defined, li_is_tuple, target,
                    output, browsetarg, val, status, pc, foldertarget, runs,
                    snaps, exc >>

\* lines 561-596: the lists are sorted and tupled, the counts published
LG_Finish ==
    /\ app = "DicoGIS"
    /\ pc = "walk"
    /\ walkStack = << >>
    /\ li_shp' = PySort(li_shp)
    /\ li_tab' = PySort(li_tab)
    /\ li_raster' = PySort(li_raster)
    /\ li_kml' = PySort(li_kml)
    /\ li_gml' = PySort(li_gml)
    /\ li_geoj' = PySort(li_geoj)
    /\ li_is_tuple' = TRUE
    /\ status' = [ text |-> "counts",
                   counts |-> << Len(li_shp), Len(li_tab), Len(li_kml),
                                 Len(li_gml), Len(li_geoj), Len(li_raster),
                                 num_folders >> ]
    /\ browsetarg' = "ACTIVE"
    /\ val' = "ACTIVE"
    /\ pc' = "idle"
    /\ snaps' = Append(snaps, [ Snapshot EXCEPT !.shp = li_shp', !.tab = li_tab',
                                  !.kml = li_kml', !.gml = li_gml',
                                  !.geoj = li_geoj', !.raster = li_raster' ])
    /\ UNCHANGED << readerVars, driverVars, threadVars >>
    /\ UNCHANGED << app, fsFiles, fsDirs, li_gdb, li_kml_defined, num_folders,
                    target, output, foldertarget, walkStack, runs, exc >>

(***************************************************************************)
(* DicoShapes: setpathtarg calls ligeofiles in the GUI thread.  The lists  *)
(* are created once, in the constructor, and tupled by every call.         *)
(***************************************************************************)
\* lines 173-176 and 179-182: the tests are made on the names as they are
ds_shp(full_path) ==
    /\ splitext(full_path)[2] = EXT_shp
    /\ isfile(DropLast4(full_path) \o EXT_dbf)
    /\ isfile(DropLast4(full_path) \o EXT_shx)
    /\ isfile(DropLast4(full_path) \o EXT_prj)

ds_tab(full_path) ==
    /\ splitext(full_path)[2] = EXT_tab
    /\ isfile(DropLast4(full_path) \o EXT_dat)
    /\ isfile(DropLast4(full_path) \o EXT_map)
    /\ isfile(DropLast4(full_path) \o EXT_id)

ds_bucket(full_path) ==
    IF ds_shp(full_path) THEN "shp"
    ELSE IF ds_tab(full_path) THEN "tab"
    ELSE "none"

ds_buckets(root) == [ name \in FileNames(root) |-> ds_bucket(join(root, name)) ]

\* lines 143-158: the folder dialog, the entries, the call of ligeofiles
DS_SetPathTarg(foldername) ==
    /\ app = "DicoShapes"
    /\ pc = "idle"
    /\ runs < MaxRuns
    /\ target' = IF foldername # << >> THEN foldername \o target ELSE target
    /\ output' = basename(target') \o output
    /\ foldertarget' = foldername
    /\ walkStack' = IF isdir(foldername) THEN << foldername >> ELSE << >>
    /\ pc' = "ds_walk"
    /\ runs' = runs + 1
    /\ exc' = "none"
    /\ UNCHANGED << readerVars, driverVars, threadVars >>
    /\ UNCHANGED << app, fsFiles, fsDirs, li_shp, li_tab, li_kml, li_gml,
                    li_geoj, li_raster, li_gdb, li_kml_defined, li_is_tuple,
                    num_folders, browsetarg, val, status, snaps >>

\* lines 170-184: one iteration of the os.walk loop; a tuple has no append
DS_VisitDir ==
    /\ app = "DicoShapes"
    /\ pc = "ds_walk"
    /\ walkStack # << >>
    /\ \E root \in { Head(walkStack) } :
       \E kind \in { ds_buckets(root) } :
       \E dirnames \in { Enumerated(SubDirNames(root)) },
          filenames \in { Enumerated(FileNames(root)) } :
       \E pd \in ListingOrders[Len(dirnames)], pf \in ListingOrders[Len(filenames)] :
       \E dirs \in { Rearranged(dirnames, pd) }, files \in { Rearranged(filenames, pf) } :
          IF li_is_tuple /\ \E n \in DOMAIN kind : kind[n] # "none"
          THEN /\ exc' = "AttributeError"
               /\ pc' = "idle"
               /\ walkStack' = << >>
               /\ UNCHANGED << li_shp, li_tab >>
          ELSE /\ li_shp' = li_shp \o appended(root, files, kind, "shp")
               /\ li_tab' = li_tab \o appended(root, files, kind, "tab")
               /\ walkStack' = [ i \in DOMAIN dirs |-> join(root, dirs[i]) ]
                                  \o Tail(walkStack)
               /\ UNCHANGED << pc, exc >>
    /\ UNCHANGED << readerVars, driverVars, threadVars >>
    /\ UNCHANGED << app, fsFiles, fsDirs, li_kml, li_gml, li_geoj, li_raster,
                    li_gdb, li_kml_defined, li_is_tuple, num_folders, target,
                    output, browsetarg, val, status, foldertarget, runs, snaps >>

\* lines 185-191 and 159-163: sort() and tuple(), then the counts and the
\* launch button; a tuple has no sort
DS_Finish ==
    /\ app = "DicoShapes"
    /\ pc = "ds_walk"
    /\ walkStack = << >>
    /\ IF li_is_tuple
       THEN /\ exc' = "AttributeError"
            /\ UNCHANGED << li_shp, li_tab, li_is_tuple, status, val, snaps >>
       ELSE /\ li_shp' = PySort(li_shp)
            /\ li_tab' = PySort(li_tab)
            /\ li_is_tuple' = TRUE
            /\ status' = [ text |-> "counts",
                           counts |-> << Len(li_shp), Len(li_tab) >> ]
            /\ val' = "ACTIVE"
            /\ snaps' = Append(snaps, [ Snapshot EXCEPT !.shp = li_shp',
                                                        !.tab = li_tab' ])
            /\ exc' = "none"
    /\ pc' = "idle"
    /\ UNCHANGED << readerVars, driverVars, threadVars >>
    /\ UNCHANGED << app, fsFiles, fsDirs, li_kml, li_gml, li_geoj, li_raster,
                    li_gdb, li_kml_defined, num_folders, target, output,
                    browsetarg, foldertarget, walkStack, runs >>

(***************************************************************************)
(* Dictionaries: a dict is a function from its keys to their values.       *)
(***************************************************************************)
EmptyDict == [ k \in {} |-> "" ]

\* d[k] = v
Put(d, k, v) == (k :> v) @@ d

\* d.update(e)
Update(d, e) == e @@ d

\* range(a, b)
range(a, b) == a..(b - 1)

\* str.upper() on one character, str.capitalize() and str.replace()
UpperChar ==
    [ c \in CharSet |->
        IF \E u \in CharSet : u # c /\ LowerChar[u] = c
        THEN CHOOSE u \in CharSet : u # c /\ LowerChar[u] = c
        ELSE c ]

Capitalize(s) ==
    [ i \in DOMAIN s |-> IF i = 1 THEN UpperChar[s[i]] ELSE LowerChar[s[i]] ]

Replace(s, old, new) == [ i \in DOMAIN s |-> IF s[i] = old THEN new ELSE s[i] ]

\* name[:-4].replace('_', ' ').capitalize()
TitleOf(name) == Capitalize(Replace(DropLast4(name), "_", " "))

(***************************************************************************)
(* What the native library answers.  A value read from the library is      *)
(* written as the name of the call or attribute that gave it.              *)
(***************************************************************************)
\* the resources handed to the readers
RasterPaths == { Root \o << "/", "B", "_", "c", ".", "t", "i", "f" >> }

PdfPaths == { Root \o << "/", "m", "_", "P", ".", "p", "d", "f" >> }

\* the category tests of osr.SpatialReference, in the order of srsmetod,
\* and the keys of their labels in the text dictionary
SrsTests ==
    << "IsCompound", "IsGeocentric", "IsGeographic", "IsLocal", "IsProjected",
       "IsVertical" >>

SrsLabels ==
    << "srs_comp", "srs_geoc", "srs_geog", "srs_loca", "srs_proj", "srs_vert" >>

SrsTestSet == { SrsTests[i] : i \in DOMAIN SrsTests }

\* the loop over srsmetod, were it left at the first test that answers 1
typsrs_First(flags) ==
    LET set == { i \in DOMAIN SrsTests : SrsTests[i] \in flags }
    IN  IF set = {} THEN "unbound"
        ELSE SrsLabels[CHOOSE i \in set : \A j \in set : i <= j]

\* the loop over srsmetod has no break: typsrs is bound by every test that
\* answers 1, so it ends as the label of the last one; "unbound" if none does
typsrs(flags) ==
    LET set == { i \in DOMAIN SrsTests : SrsTests[i] \in flags }
    IN  IF set = {} THEN "unbound"
        ELSE SrsLabels[CHOOSE i \in set : \A j \in set : j <= i]

\* what GetStatistics, GetMinimum and GetMaximum answer for one band:
\* stats is "ok" (four numbers), "empty" (a falsy answer) or "raises"
BandAnswers ==
    { [ stats |-> "ok", min |-> mn, max |-> mx ] : mn, mx \in BOOLEAN }
      \cup { [ stats |-> st, min |-> FALSE, max |-> FALSE ] : st \in { "empty", "raises" } }

\* the internal vector layers of a PDF: name, feature count, field count
LayerUniverse ==
    { [ name |-> "L", num_obj |-> o, num_fields |-> f ] : o \in 0..1, f \in 0..1 }

SeqsUpTo(S, n) == UNION { [ 1..k -> S ] : k \in 0..n }

(***************************************************************************)
(* InfosRasters (src/modules/InfosGDAL.py).  Every operator gives the      *)
(* dictionaries as the call leaves them and the exception that left it.    *)
(***************************************************************************)
\* infos_basics: self.rast is None when gdal.Open could not open the file,
\* and GetRasterBand(1) is None for a dataset without band
InfosRasters_infos_basics(rasterpath, dico_raster, rast, RasterCount) ==
    LET named == Update(dico_raster,
                        [ name |-> basename(rasterpath),
                          folder |-> dirname(rasterpath),
                          title |-> TitleOf(basename(rasterpath)) ])
        sized == Update(named,
                        [ dependencies |-> "GetFileList",
                          compr_rate |-> "COMPRESSION_RATE_TARGET",
                          color_ref |-> "COLORSPACE",
                          format_version |-> "VERSION",
                          num_cols |-> "RasterXSize",
                          num_rows |-> "RasterYSize",
                          num_bands |-> RasterCount ])
        dated == Update(sized,
                        [ data_type |-> "GetDataTypeName",
                          date_actu |-> "getmtime",
                          date_crea |-> "getctime" ])
    IN  IF rast = "none" THEN [ dico |-> named, exc |-> "AttributeError" ]
        ELSE IF RasterCount = 0 THEN [ dico |-> sized, exc |-> "AttributeError" ]
        ELSE [ dico |-> dated, exc |-> "none" ]

\* infos_geom: unicode(typsrs) reads a name no test has bound
InfosRasters_infos_geom(dico_raster, flags) ==
    LET placed == Update(dico_raster,
                         [ xOrigin |-> "geotransform[0]",
                           yOrigin |-> "geotransform[3]",
                           pixelWidth |-> "geotransform[1]",
                           pixelHeight |-> "geotransform[5]",
                           orientation |-> "geotransform[2]" ])
        referenced == Update(placed,
                             [ srs_type |-> typsrs(flags),
                               srs |-> "PROJCS",
                               EPSG |-> "AUTHORITY" ])
    IN  IF typsrs(flags) = "unbound"
        THEN [ dico |-> placed, exc |-> "UnboundLocalError" ]
        ELSE [ dico |-> referenced, exc |-> "none" ]

\* the keys "band{}_Min".format(band), ...
BandKey(band, what) == "band" \o ToString(band) \o "_" \o what

InfosRasters_infos_bands(band, bands) ==
    Put(Put(Put(bands, BandKey(band, "Min"), "GetMinimum"),
                       BandKey(band, "Max"), "GetMaximum"),
                       BandKey(band, "NoData"), "GetNoDataValue")

\* for band in range(1, dico_raster.get('num_bands')): infos_bands
RECURSIVE InfosRasters_band_loop(_, _, _)
InfosRasters_band_loop(band, stop, bands) ==
    IF band \notin range(1, stop) THEN bands
    ELSE InfosRasters_band_loop(band + 1, stop, InfosRasters_infos_bands(band, bands))

\* InfosRasters.__init__
InfosRasters(rasterpath, dico_raster, bands, tipo, rast, RasterCount, flags) ==
    LET basics == InfosRasters_infos_basics(rasterpath, Put(dico_raster, "format", tipo),
                                            rast, RasterCount)
        geom == InfosRasters_infos_geom(basics.dico, flags)
    IN  IF basics.exc # "none"
        THEN [ dico |-> basics.dico, bands |-> bands, exc |-> basics.exc ]
        ELSE IF geom.exc # "none"
        THEN [ dico |-> geom.dico, bands |-> bands, exc |-> geom.exc ]
        ELSE [ dico |-> geom.dico,
               bands |-> InfosRasters_band_loop(1, geom.dico["num_bands"], bands),
               exc |-> "none" ]

\* no statement of the class binds self.layer
InfosRasters_has_layer == FALSE

\* InfosRasters.erratum
InfosRasters_erratum(dicolayer, layerpath, mess) ==
    LET named == Update(dicolayer, [ name |-> basename(layerpath),
                                     folder |-> dirname(layerpath) ])
    IN  IF ~InfosRasters_has_layer
        THEN [ dico |-> named, exc |-> "AttributeError" ]
        ELSE [ dico |-> Put(Put(named, "num_fields", "GetFieldCount"), "error", mess),
               exc |-> "none" ]

(***************************************************************************)
(* ReadGeoPDF (src/modules/georeaders/Infos_GeoPDF.py).                    *)
(***************************************************************************)
\* ReadGeoPDF.erratum
ReadGeoPDF_erratum(dico_geopdf, pdfpath, mess) ==
    Update(dico_geopdf, [ name |-> basename(pdfpath),
                          folder |-> dirname(pdfpath),
                          error |-> mess ])

\* raster_basics, every way it can go: the CREATION_DATE metadata may be
\* absent (None is sliced), and GetRasterBand(1) of a dataset without band
\* raises, or answers None once the error handler has switched the GDAL
\* exceptions off
ReadGeoPDF_raster_basics(pdfpath, dico_geopdf, RasterCount) ==
    LET described == Update(dico_geopdf,
                            [ name |-> basename(pdfpath),
                              folder |-> dirname(pdfpath),
                              dependencies |-> "GetFileList",
                              total_size |-> "sizeof",
                              title |-> "TITLE",
                              creator_prod |-> "CREATOR - PRODUCER",
                              keywords |-> "KEYWORDS",
                              dpi |-> "DPI",
                              subject |-> "SUBJECT",
                              neatline |-> "NEATLINE",
                              description |-> "GetDescription" ])
        sized == Update(described,
                        [ date_crea |-> "CREATION_DATE",
                          num_cols |-> "RasterXSize",
                          num_rows |-> "RasterYSize",
                          num_bands |-> RasterCount ])
        dated == Update(sized,
                        [ data_type |-> "GetDataTypeName",
                          subdatasets_count |-> "GetSubDatasets",
                          gcp_count |-> "GetGCPCount",
                          date_actu |-> "getmtime" ])
    IN  { [ dico |-> described, exc |-> "TypeError" ] }
          \cup IF RasterCount = 0
               THEN { [ dico |-> sized, exc |-> e ] : e \in { "RuntimeError", "AttributeError" } }
               ELSE { [ dico |-> dated, exc |-> "none" ] }

\* infos_geom: the UnboundLocalError is caught and the label of key "srs_nr"
\* recorded; the name is the PROJCS of a projected reference, else the GEOGCS
ReadGeoPDF_infos_geom(dico_geopdf, flags) ==
    Update(dico_geopdf,
           [ xOrigin |-> "geotransform[0]",
             yOrigin |-> "geotransform[3]",
             pixelWidth |-> "geotransform[1]",
             pixelHeight |-> "geotransform[5]",
             orientation |-> "geotransform[2]",
             srs_type |-> IF typsrs(flags) = "unbound" THEN "srs_nr" ELSE typsrs(flags),
             srs |-> IF "IsProjected" \in flags THEN "PROJCS" ELSE "GEOGCS",
             EPSG |-> "AUTHORITY" ])

\* infos_bands: the bare except returns at once; line 433 tests GetMinimum
\* again where the maximum is chosen
ReadGeoPDF_infos_bands(band, dico_band, answer) ==
    LET computed ==
            Update(dico_band,
                   (BandKey(band, "Min") :> IF ~answer.min THEN "stats[0]" ELSE "GetMinimum")
                   @@ (BandKey(band, "Max") :>
                          IF ~answer.min THEN "stats[1]"
                          ELSE IF answer.max THEN "GetMaximum" ELSE "None")
                   @@ (BandKey(band, "Mean") :> "stats[2]")
                   @@ (BandKey(band, "Sdev") :> "stats[3]"))
        measured == IF answer.stats = "ok" THEN computed ELSE dico_band
    IN  IF answer.stats = "raises" THEN dico_band
        ELSE Update(measured,
                    (BandKey(band, "NoData") :> "GetNoDataValue")
                    @@ (BandKey(band, "Scale") :> "GetScale")
                    @@ (BandKey(band, "UnitType") :> "GetUnitType")
                    @@ (BandKey(band, "CTabCount") :> "GetCount"))

\* the key "band_{0}".format(band_idx)
BandEntry(band_idx) == "band_" \o ToString(band_idx)

\* for band_idx in range(1, self.geopdf.RasterCount): a new dictionary is
\* filled by infos_bands and stored in the record
RECURSIVE ReadGeoPDF_band_loop(_, _, _, _)
ReadGeoPDF_band_loop(band_idx, stop, dico_geopdf, answers) ==
    IF band_idx \notin range(1, stop) THEN dico_geopdf
    ELSE ReadGeoPDF_band_loop(
             band_idx + 1, stop,
             Put(dico_geopdf, BandEntry(band_idx),
                 ReadGeoPDF_infos_bands(band_idx, EmptyDict, answers[band_idx])),
             answers)

\* infos_fields and vector_basics
ReadGeoPDF_infos_fields(layer) ==
    [ k \in { "field" \o ToString(i) : i \in range(0, layer.num_fields) } |-> "GetTypeName" ]

ReadGeoPDF_vector_basics(layer, dico_layer) ==
    Update(dico_layer,
           [ title |-> layer.name,
             num_obj |-> layer.num_obj,
             num_fields |-> layer.num_fields,
             fields |-> ReadGeoPDF_infos_fields(layer) ])

\* a key made of the title alone
LayerEntry_TitleOnly(layer_idx, title) == title

\* the key "{0}_{1}".format(layer_idx, dico_layer.get("title"))
LayerEntry(layer_idx, title) == ToString(layer_idx) \o "_" \o title

\* for layer_idx in range(geopdf_v.GetLayerCount()); layers[i] is the layer
\* of index i - 1
RECURSIVE ReadGeoPDF_layer_loop(_, _, _, _)
ReadGeoPDF_layer_loop(layer_idx, pdfpath, dico_geopdf, layers) ==
    IF layer_idx \notin range(0, Len(layers)) THEN dico_geopdf
    ELSE LET dico_layer ==
                 ReadGeoPDF_vector_basics(layers[layer_idx + 1],
                                          [ parent_name |-> basename(pdfpath) ])
             stored == Put(dico_geopdf, LayerEntry(layer_idx, dico_layer["title"]),
                           dico_layer)
             summed ==
                 Update(stored,
                        [ layers_names |-> Append(dico_geopdf["layers_names"],
                                                  layers[layer_idx + 1].name),
                          layers_idx |-> Append(dico_geopdf["layers_idx"], layer_idx),
                          total_fields |-> dico_geopdf["total_fields"]
                                             + dico_layer["num_fields"],
                          total_objs |-> dico_geopdf["total_objs"]
                                           + dico_layer["num_obj"] ])
         IN  ReadGeoPDF_layer_loop(layer_idx + 1, pdfpath, summed, layers)

\* lines 182-230: the vector view, every way it can go; ogr.Open raises, or
\* answers None (then GetLayerCount is asked of None), or opens the layers
ReadGeoPDF_vector_view(pdfpath, dico_geopdf) ==
    LET counted(layers) ==
            Update(dico_geopdf,
                   [ layers_count |-> Len(layers),
                     layers_names |-> << >>,
                     layers_idx |-> << >>,
                     total_fields |-> 0,
                     total_objs |-> 0 ])
    IN  { [ dico |-> ReadGeoPDF_erratum(dico_geopdf, pdfpath, "err_corrupt"),
            exc |-> "none", ogrOpen |-> "raises" ],
          [ dico |-> dico_geopdf, exc |-> "AttributeError", ogrOpen |-> "none" ] }
          \cup { [ dico |-> ReadGeoPDF_layer_loop(0, pdfpath, counted(layers), layers),
                   exc |-> "none", ogrOpen |-> "ok" ] :
                 layers \in SeqsUpTo(LayerUniverse, MaxLayers) }

\* answers of the six category tests that give every record infos_geom can
\* leave: the record depends on the last test that answers 1 and on
\* whether IsProjected does, so two tests at most are enough
SrsAnswers == { flags \in SUBSET SrsTestSet : Cardinality(flags) <= 2 }

\* lines 161-180: the raster view of an opened dataset, every way it can go
ReadGeoPDF_raster_view(pdfpath, dico_geopdf, tipo) ==
    LET geoms(d) == { ReadGeoPDF_infos_geom(d, flags) : flags \in SrsAnswers }
        banded(d) ==
            { ReadGeoPDF_band_loop(1, d["num_bands"], d, answers) :
                 answers \in [ range(1, d["num_bands"]) -> BandAnswers ] }
        basics ==
            UNION { ReadGeoPDF_raster_basics(pdfpath, Put(dico_geopdf, "format", tipo), n) :
                       n \in 0..MaxBands }
    IN  { b \in basics : b.exc # "none" }
          \cup { [ dico |-> Put(d, "err_gdal", "err_type, err_msg"), exc |-> "none" ] :
                   d \in UNION { banded(g) :
                                   g \in UNION { geoms(b.dico) :
                                       b \in { x \in basics : x.exc = "none" } } } }

(***************************************************************************)
(* Utils.erratum (src/modules/georeaders/geoutils.py).                     *)
(***************************************************************************)
Utils_erratum(ds_type, ctner, src, mess_type, mess) ==
    IF ds_type = "flat"
    THEN Update(ctner, [ name |-> basename(src), folder |-> dirname(src),
                         error |-> mess ])
    ELSE IF ds_type = "postgis"
    THEN Update(ctner, [ name |-> mess_type, error |-> mess ])
    ELSE ctner

\* InfosRasters: self.rast is bound to what gdal.Open answers and no
\* statement of the class unbinds it
InfosRasters_held(rast) == IF rast = "ok" THEN { "self.rast" } ELSE {}

\* ReadGeoPDF: 'del self.geopdf' stands after the band loop, so it is reached
\* when the raster view was read without an exception; geopdf_v is a local
\* of the constructor and goes with its frame
ReadGeoPDF_held(geopdf, raster_exc) ==
    IF geopdf = "ok" /\ raster_exc # "none" THEN { "self.geopdf" } ELSE {}

(***************************************************************************)
(* The readers at work, as in the loops of the stand-alone programs and of *)
(* DicoGIS.process_files: for each resource the dictionaries are cleared,  *)
(* then the reader is called on them.                                      *)
(***************************************************************************)
\* dico_raster.clear(), dico_bands.clear(), dico_pdf.clear()
Clear_Records ==
    /\ op \in { "InfosRasters", "ReadGeoPDF" }
    /\ dico' = EmptyDict
    /\ dico_bands' = EmptyDict
    /\ dico_before' = EmptyDict
    /\ op' = "none"
    /\ gdalOpen' = "unasked"
    /\ ogrOpen' = "unasked"
    /\ rexc' = "none"
    /\ held' = {}
    /\ UNCHANGED srs_flags
    /\ UNCHANGED << classifierVars, driverVars, threadVars >>

Read_Rasters ==
    /\ op = "none"
    /\ \E rasterpath \in RasterPaths, rast \in { "ok", "none" } :
       \E RasterCount \in (IF rast = "ok" THEN 0..MaxBands ELSE { 0 }) :
       \E flags \in (IF rast = "ok" /\ RasterCount > 0
                     THEN SUBSET SrsTestSet ELSE { {} }) :
       \E read \in { InfosRasters(rasterpath, dico, dico_bands,
                                  splitext(Lower(rasterpath))[2],
                                  rast, RasterCount, flags) } :
          /\ dico' = read.dico
          /\ dico_bands' = read.bands
          /\ rexc' = read.exc
          /\ gdalOpen' = rast
          /\ held' = InfosRasters_held(rast)
    /\ dico_before' = EmptyDict
    /\ ogrOpen' = "unasked"
    /\ op' = "InfosRasters"
    /\ UNCHANGED srs_flags
    /\ UNCHANGED << classifierVars, driverVars, threadVars >>

\* ReadGeoPDF.__init__, every way it can go: gdal.Open raises or answers
\* None (erratum, return), or the raster view is read and, unless it raised,
\* the vector view after it
Read_GeoPDF ==
    /\ op = "none"
    /\ \E pdfpath \in PdfPaths :
          \/ /\ \E answer \in { "raises", "none" } : gdalOpen' = answer
             /\ dico' = ReadGeoPDF_erratum(dico, pdfpath, "err_incomp")
             /\ rexc' = "none"
             /\ ogrOpen' = "unasked"
             /\ held' = ReadGeoPDF_held("unopened", "none")
          \/ /\ gdalOpen' = "ok"
             /\ \E raster \in ReadGeoPDF_raster_view(pdfpath, dico, splitext(pdfpath)[2]) :
                   IF raster.exc # "none"
                   THEN /\ dico' = raster.dico
                        /\ rexc' = raster.exc
                        /\ ogrOpen' = "unasked"
                        /\ held' = ReadGeoPDF_held("ok", raster.exc)
                   ELSE \E vector \in ReadGeoPDF_vector_view(pdfpath, raster.dico) :
                           /\ dico' = vector.dico
                           /\ rexc' = vector.exc
                           /\ ogrOpen' = vector.ogrOpen
                           /\ held' = ReadGeoPDF_held("ok", "none")
    /\ op' = "ReadGeoPDF"
    /\ UNCHANGED << dico_bands, dico_before, srs_flags >>
    /\ UNCHANGED << classifierVars, driverVars, threadVars >>

(***************************************************************************)
(* The erratum builders, called on any record.                             *)
(***************************************************************************)
ErratumMessages == { "err_corrupt", "err_incomp" }

Call_InfosRasters_erratum ==
    /\ \E layerpath \in RasterPaths, mess \in ErratumMessages :
       \E built \in { InfosRasters_erratum(dico, layerpath, mess) } :
          /\ dico' = built.dico
          /\ rexc' = built.exc
    /\ dico_before' = dico
    /\ op' = "InfosRasters.erratum"
    /\ UNCHANGED << dico_bands, gdalOpen, ogrOpen >>
    /\ UNCHANGED << srs_flags, held >>
    /\ UNCHANGED << classifierVars, driverVars, threadVars >>

Call_ReadGeoPDF_erratum ==
    /\ \E pdfpath \in PdfPaths, mess \in ErratumMessages :
          dico' = ReadGeoPDF_erratum(dico, pdfpath, mess)
    /\ rexc' = "none"
    /\ dico_before' = dico
    /\ op' = "ReadGeoPDF.erratum"
    /\ UNCHANGED << dico_bands, gdalOpen, ogrOpen >>
    /\ UNCHANGED << srs_flags, held >>
    /\ UNCHANGED << classifierVars, driverVars, threadVars >>

Call_Utils_erratum ==
    /\ \E ds_type \in { "flat", "postgis", "other" } :
       \E src \in RasterPaths \cup PdfPaths, mess \in ErratumMessages :
          /\ dico' = Utils_erratum(ds_type, dico, src, 1, mess)
          /\ op' = "Utils.erratum " \o ds_type
    /\ rexc' = "none"
    /\ dico_before' = dico
    /\ UNCHANGED << dico_bands, gdalOpen, ogrOpen >>
    /\ UNCHANGED << srs_flags, held >>
    /\ UNCHANGED << classifierVars, driverVars, threadVars >>

(***************************************************************************)
(* The SRS classification, called on the spatial reference of a dataset    *)
(* that was opened and described.                                          *)
(***************************************************************************)
Call_InfosRasters_infos_geom ==
    /\ op = "none"
    /\ \E geom \in { InfosRasters_infos_geom(dico, srs_flags) } :
          /\ dico' = geom.dico
          /\ rexc' = geom.exc
    /\ op' = "InfosRasters.infos_geom"
    /\ UNCHANGED << dico_bands, dico_before, gdalOpen, ogrOpen, srs_flags, held >>
    /\ UNCHANGED << classifierVars, driverVars, threadVars >>

Call_ReadGeoPDF_infos_geom ==
    /\ op = "none"
    /\ dico' = ReadGeoPDF_infos_geom(dico, srs_flags)
    /\ rexc' = "none"
    /\ op' = "ReadGeoPDF.infos_geom"
    /\ UNCHANGED << dico_bands, dico_before, gdalOpen, ogrOpen, srs_flags, held >>
    /\ UNCHANGED << classifierVars, driverVars, threadVars >>

(***************************************************************************)
(* DicoGIS.process: the scan the launch button starts, over the candidate  *)
(* lists (files) or over the layers of a database connection.              *)
(***************************************************************************)
\* the options in the order process_files tests them
Formats == << "shp", "tab", "kml", "gml", "geoj", "rast" >>

FormatSet == { Formats[i] : i \in 1..Len(Formats) }

\* the kind process_files hands to the reader of each format
KindOf ==
    [ shp |-> "shape", tab |-> "table", kml |-> "kml", gml |-> "gml",
      geoj |-> "geojson", rast |-> "raster", pg |-> "pg" ]

\* the states of the six check boxes the model lets the user leave
OptionChoices == { o \in SUBSET FormatSet : Cardinality(o) \in { 0, 1, 5, 6 } }

ListOf(fmt) ==
    CASE fmt = "shp" -> li_shp
      [] fmt = "tab" -> li_tab
      [] fmt = "kml" -> li_kml
      [] fmt = "gml" -> li_gml
      [] fmt = "geoj" -> li_geoj
      [] fmt = "rast" -> li_raster

\* the visits of the six loops of process_files, in the order of the code
RECURSIVE LoopsOf(_, _)
LoopsOf(i, options) ==
    IF i > Len(Formats) THEN << >>
    ELSE (IF Formats[i] \in options
          THEN [ k \in 1..Len(ListOf(Formats[i])) |->
                    [ fmt |-> Formats[i], src |-> ListOf(Formats[i])[k] ] ]
          ELSE << >>) \o LoopsOf(i + 1, options)

\* configexcel: max() of the name lengths of an empty list raises
configexcel ==
    IF Len(li_shp) + Len(li_tab) = 0 \/ Len(li_raster) = 0
    THEN "ValueError" ELSE "none"

\* what a vector reader can meet: a layer it describes, or a resource it
\* cannot open or parse
VectorOutcomes == { "ok", "err_corrupt" }

\* Read_SHP, Read_TAB, Read_KML, Read_GML, Read_GeoJSON, Read_PostGIS: the
\* failure is caught in the reader and turned into an erratum record
Read_Vector(src, layer_infos, fields_info, kind, outcome) ==
    IF outcome = "ok"
    THEN [ layer |-> Update(layer_infos,
                            [ name |-> basename(src), folder |-> dirname(src),
                              type |-> kind, num_fields |-> 1 ]),
           fields |-> Put(fields_info, "f", "Integer") ]
    ELSE [ layer |-> Update(layer_infos,
                            [ name |-> basename(src), folder |-> dirname(src),
                              error |-> outcome ]),
           fields |-> fields_info ]

\* dict.get('error') as a condition
HasError(record) == "error" \in DOMAIN record /\ record["error"] # ""

\* the row of a record that holds an error: name, folder link, error text
ErrorRow(record) ==
    [ name |-> record["name"], folder |-> record["folder"],
      error |-> record["error"], type |-> "" ]

\* dictionarize_vectors with the error branch left out
dictionarize_vectors_NoErrorRow(layer_infos, fields_info, sheet, line) ==
    IF HasError(layer_infos) THEN sheet
    ELSE (line :> [ name |-> layer_infos["name"], folder |-> layer_infos["folder"],
                    error |-> "", type |-> layer_infos["type"] ]) @@ sheet

\* dictionarize_vectors: the cells written on the line, as one row
dictionarize_vectors(layer_infos, fields_info, sheet, line) ==
    IF HasError(layer_infos)
    THEN (line :> ErrorRow(layer_infos)) @@ sheet
    ELSE (line :> [ name |-> layer_infos["name"], folder |-> layer_infos["folder"],
                    error |-> "", type |-> layer_infos["type"] ]) @@ sheet

\* dictionarize_rasters: the error branch reads layer_infos, a name the
\* function does not bind
dictionarize_rasters(dico_raster, bands, sheet, line) ==
    IF HasError(dico_raster)
    THEN [ sheet |-> sheet, exc |-> "NameError" ]
    ELSE [ sheet |-> (line :> [ name |-> dico_raster["name"],
                                folder |-> dico_raster["folder"],
                                error |-> "",
                                type |-> dico_raster["format"] ]) @@ sheet,
           exc |-> "none" ]

\* what GDAL answers for a raster of the scan: it cannot open it, it opens
\* it and no category test answers 1, or it opens and classifies it
ScanRasterAnswers ==
    { [ rast |-> "none", RasterCount |-> 0, flags |-> {} ],
      [ rast |-> "ok", RasterCount |-> 1, flags |-> {} ],
      [ rast |-> "ok", RasterCount |-> 1, flags |-> { "IsProjected" } ] }

\* the keys a reader finds in the record and the collection it is handed
KeysIn(record, collection) == DOMAIN record \cup DOMAIN collection

\* process, files: the two checks, configexcel, the three line ranks
Process_Files ==
    /\ scan_pc = "idle"
    /\ launches < MaxRuns
    /\ launches' = launches + 1
    /\ typo' = 1
    /\ read_log' = << >>
    /\ \E options \in OptionChoices :
          /\ opt' = options
          /\ IF options = {} \/ \A i \in 1..Len(Formats) : ListOf(Formats[i]) = << >>
             THEN /\ scan_pc' = "idle"
                  /\ scan_exc' = "none"
                  /\ scan_todo' = << >>
                  /\ UNCHANGED << feuy1, feuy2, line_vectors, line_rasters >>
             ELSE /\ feuy1' = << >>
                  /\ feuy2' = << >>
                  /\ IF configexcel # "none"
                     THEN /\ scan_pc' = "idle"
                          /\ scan_exc' = configexcel
                          /\ scan_todo' = << >>
                          /\ UNCHANGED << line_vectors, line_rasters >>
                     ELSE /\ scan_pc' = "files"
                          /\ scan_exc' = "none"
                          /\ scan_todo' = LoopsOf(1, options)
                          /\ line_vectors' = 1
                          /\ line_rasters' = 1
    /\ UNCHANGED << self_dico_layer, self_dico_fields >>
    /\ UNCHANGED << classifierVars, readerVars, threadVars >>
    /\ UNCHANGED dico_err

\* one pass of a vector loop: clear, read, write the row, next line
PF_Vector ==
    /\ scan_pc = "files"
    /\ scan_todo # << >>
    /\ Head(scan_todo).fmt # "rast"
    /\ \E outcome \in VectorOutcomes :
       \E read \in { Read_Vector(Head(scan_todo).src, EmptyDict, EmptyDict,
                                 KindOf[Head(scan_todo).fmt], outcome) } :
          /\ self_dico_layer' = read.layer
          /\ self_dico_fields' = read.fields
          /\ feuy1' = dictionarize_vectors(read.layer, read.fields, feuy1, line_vectors)
          /\ read_log' = Append(read_log, [ src |-> Head(scan_todo).src,
                                            found |-> KeysIn(EmptyDict, EmptyDict),
                                            error |-> IF HasError(read.layer)
                                                      THEN read.layer["error"] ELSE "" ])
    /\ line_vectors' = line_vectors + 1
    /\ scan_todo' = Tail(scan_todo)
    /\ status' = [ text |-> "basename", counts |-> << >>, src |-> Head(scan_todo).src ]
    /\ UNCHANGED << typo, opt, scan_pc, scan_exc, line_rasters, feuy2, launches >>
    /\ UNCHANGED << app, fsFiles, fsDirs, li_shp, li_tab, li_kml, li_gml, li_geoj,
                    li_raster, li_gdb, li_kml_defined, li_is_tuple, num_folders,
                    target, output, browsetarg, val, pc, foldertarget, walkStack,
                    runs, snaps, exc >>
    /\ UNCHANGED readerVars
    /\ UNCHANGED threadVars
    /\ UNCHANGED dico_err

\* one pass of the raster loop: clear, read, write the row, next line; what
\* the reader or dictionarize_rasters raises leaves process_files
PF_Raster ==
    /\ scan_pc = "files"
    /\ scan_todo # << >>
    /\ Head(scan_todo).fmt = "rast"
    /\ \E answer \in ScanRasterAnswers :
       \E read \in { InfosRasters(Head(scan_todo).src, EmptyDict, EmptyDict,
                                  splitext(Head(scan_todo).src)[2],
                                  answer.rast, answer.RasterCount, answer.flags) } :
       \E wrote \in { IF read.exc # "none"
                      THEN [ sheet |-> feuy2, exc |-> read.exc ]
                      ELSE dictionarize_rasters(read.dico, read.bands, feuy2,
                                                line_rasters) } :
          /\ dico' = read.dico
          /\ dico_bands' = read.bands
          /\ rexc' = read.exc
          /\ gdalOpen' = answer.rast
          /\ held' = InfosRasters_held(answer.rast)
          /\ feuy2' = wrote.sheet
          /\ scan_exc' = wrote.exc
          /\ read_log' = Append(read_log, [ src |-> Head(scan_todo).src,
                                            found |-> KeysIn(EmptyDict, EmptyDict),
                                            error |-> IF HasError(read.dico)
                                                      THEN read.dico["error"] ELSE "" ])
          /\ IF wrote.exc # "none"
             THEN /\ scan_pc' = "idle"
                  /\ UNCHANGED << line_rasters, scan_todo >>
             ELSE /\ scan_pc' = "files"
                  /\ line_rasters' = line_rasters + 1
                  /\ scan_todo' = Tail(scan_todo)
    /\ op' = "InfosRasters"
    /\ dico_before' = EmptyDict
    /\ ogrOpen' = "unasked"
    /\ status' = [ text |-> "basename", counts |-> << >>, src |-> Head(scan_todo).src ]
    /\ UNCHANGED << typo, opt, line_vectors, feuy1, self_dico_layer,
                    self_dico_fields, launches, srs_flags >>
    /\ UNCHANGED << app, fsFiles, fsDirs, li_shp, li_tab, li_kml, li_gml, li_geoj,
                    li_raster, li_gdb, li_kml_defined, li_is_tuple, num_folders,
                    target, output, browsetarg, val, pc, foldertarget, walkStack,
                    runs, snaps, exc >>
    /\ UNCHANGED threadVars
    /\ UNCHANGED dico_err

\* the loops are over: savedico, save_settings, destroy, exit
PF_Save ==
    /\ scan_pc = "files"
    /\ scan_todo = << >>
    /\ scan_pc' = "saved"
    /\ UNCHANGED << typo, opt, scan_todo, line_vectors, line_rasters, feuy1, feuy2,
                    read_log, scan_exc, self_dico_layer, self_dico_fields, launches >>
    /\ UNCHANGED << classifierVars, readerVars, threadVars >>
    /\ UNCHANGED dico_err

\* the layers a connection enumerates
Letters == << "a", "b", "c", "d", "e" >>

LayerNames == [ i \in 1..MaxLayers |-> << "L", Letters[i] >> ]

\* what ogr.Open can do with the connection string
ConnAnswers == { "raises", "none", "ok" }

\* process, database: configexcel, the connection, the line rank; a
\* connection that raises ends the program, one that is None cannot be
\* iterated
Process_Db ==
    /\ scan_pc = "idle"
    /\ launches < MaxRuns
    /\ launches' = launches + 1
    /\ typo' = 2
    /\ read_log' = << >>
    /\ feuy1' = << >>
    /\ feuy2' = << >>
    /\ IF configexcel # "none"
       THEN /\ scan_pc' = "idle"
            /\ scan_exc' = configexcel
            /\ scan_todo' = << >>
            /\ UNCHANGED line_vectors
       ELSE /\ line_vectors' = 1
            /\ \E conn \in ConnAnswers :
                  \/ /\ conn = "raises"
                     /\ scan_pc' = "exited"
                     /\ scan_exc' = "none"
                     /\ scan_todo' = << >>
                  \/ /\ conn = "none"
                     /\ scan_pc' = "idle"
                     /\ scan_exc' = "TypeError"
                     /\ scan_todo' = << >>
                  \/ /\ conn = "ok"
                     /\ scan_pc' = "db"
                     /\ scan_exc' = "none"
                     /\ \E n \in 0..MaxLayers :
                           scan_todo' = [ k \in 1..n |->
                                            [ fmt |-> "pg", src |-> LayerNames[k] ] ]
    /\ UNCHANGED << opt, line_rasters, self_dico_layer, self_dico_fields >>
    /\ UNCHANGED << classifierVars, readerVars, threadVars >>
    /\ UNCHANGED dico_err

\* one pass of the layer loop: the reader is handed the record and the
\* collection as they are, and self.dictionarize is not a method of the window
PDB_Layer ==
    /\ scan_pc = "db"
    /\ scan_todo # << >>
    /\ \E outcome \in VectorOutcomes :
       \E read \in { Read_Vector(Head(scan_todo).src, self_dico_layer,
                                 self_dico_fields, KindOf["pg"], outcome) } :
          /\ self_dico_layer' = read.layer
          /\ self_dico_fields' = read.fields
          /\ read_log' = Append(read_log, [ src |-> Head(scan_todo).src,
                                            found |-> KeysIn(self_dico_layer,
                                                             self_dico_fields),
                                            error |-> IF HasError(read.layer)
                                                      THEN read.layer["error"] ELSE "" ])
    /\ scan_pc' = "idle"
    /\ scan_exc' = "AttributeError"
    /\ UNCHANGED << typo, opt, scan_todo, line_vectors, line_rasters, feuy1, feuy2,
                    launches >>
    /\ UNCHANGED << classifierVars, readerVars, threadVars >>
    /\ UNCHANGED dico_err

\* the connection has no layer left: savedico, save_settings, destroy, exit
PDB_Save ==
    /\ scan_pc = "db"
    /\ scan_todo = << >>
    /\ scan_pc' = "saved"
    /\ UNCHANGED << typo, opt, scan_todo, line_vectors, line_rasters, feuy1, feuy2,
                    read_log, scan_exc, self_dico_layer, self_dico_fields, launches >>
    /\ UNCHANGED << classifierVars, readerVars, threadVars >>
    /\ UNCHANGED dico_err

(***************************************************************************)
(* The loop over the fields of a layer, in DicoGIS.dictionarize_vectors    *)
(* and in DicoShapes.dictionarize.  A field is its native type and whether *)
(* its name is plain ASCII or holds bytes of a legacy 8-bit encoding.      *)
(***************************************************************************)
\* type names OGR gives: the four the loops test, and one they do not
NativeTypes == { "Integer", "Real", "String", "Date", "DateTime" }

\* the if/elif chain of either program has no else: tipo keeps what it was
TipoOf(program, type, tipo) ==
    IF program = "DicoGIS"
    THEN CASE type = "Integer" -> "entier"
           [] type = "Real" -> "reel"
           [] type = "String" -> "string"
           [] type = "Date" -> "date"
           [] OTHER -> tipo
    ELSE CASE type \in { "Integer", "Real" } -> "Numerique"
           [] type = "String" -> "Texte"
           [] type = "Date" -> "Date"
           [] OTHER -> tipo

\* the loop from field i on. champs + chp raises UnicodeDecodeError on a name
\* that is not ASCII, before tipo is read; reading a tipo no branch has bound
\* raises UnboundLocalError, in the try as in the handler. The handler of
\* DicoGIS assigns the note of the layer and appends the decoded name; that
\* of DicoShapes reads dico_err and couche, which the function does not bind
RECURSIVE FieldLoop(_, _, _, _, _, _)
FieldLoop(program, fields_info, i, tipo, champs, notes) ==
    IF i > Len(fields_info)
    THEN [ champs |-> champs, dico_err |-> notes, exc |-> "none" ]
    ELSE LET chp == fields_info[i]
             bound == TipoOf(program, chp.type, tipo)
             noted == IF chp.enc = "ascii" THEN notes
                      ELSE Put(notes, "name", << i >>)
         IN  IF chp.enc # "ascii" /\ program = "DicoShapes"
             THEN [ champs |-> champs, dico_err |-> notes, exc |-> "NameError" ]
             ELSE IF bound = "unbound"
             THEN [ champs |-> champs, dico_err |-> noted,
                    exc |-> "UnboundLocalError" ]
             ELSE FieldLoop(program, fields_info, i + 1, bound,
                            Append(champs, [ field |-> i, tipo |-> bound ]), noted)

\* dictionarize_vectors / dictionarize called on the fields of one layer
Call_dictionarize ==
    /\ scan_pc = "idle"
    /\ \E wrote \in { FieldLoop(app, self_dico_fields, 1, "unbound", << >>,
                                 dico_err) } :
          \* sheet.write(line, 13, champs) follows the loop: a loop that
          \* raises leaves the cell of the fields unwritten
          /\ feuy1' = (1 :> [ champs |-> IF wrote.exc = "none" THEN wrote.champs
                                         ELSE << >> ]) @@ feuy1
          /\ dico_err' = wrote.dico_err
          /\ scan_exc' = wrote.exc
    /\ scan_pc' = "dictionarized"
    /\ UNCHANGED << typo, opt, scan_todo, line_vectors, line_rasters, feuy2,
                    read_log, self_dico_layer, self_dico_fields, launches >>
    /\ UNCHANGED << classifierVars, readerVars, threadVars >>

(***************************************************************************)
(* DicoGIS.setpathtarg and the ligeofiles threads it starts, interleaved:  *)
(* the main loop of the window handles a click when the handler of the     *)
(* one before has returned, whatever the threads have done by then.        *)
(***************************************************************************)
\* setpathtarg: the dialog, the two entries, Thread(...).start()
TH_SetPathTarg(foldername) ==
    /\ app = "DicoGIS"
    /\ browsetarg = "ACTIVE"
    /\ Len(threads) < MaxRuns
    /\ target' = IF foldername # << >> THEN foldername ELSE target
    /\ output' = basename(target')
    /\ threads' = Append(threads, [ pc |-> "reset", foldertarget |-> foldername,
                                    walkStack |-> << >> ])
    /\ UNCHANGED << legacy, stdout >>
    /\ runs' = runs + 1
    /\ UNCHANGED << readerVars, driverVars >>
    /\ UNCHANGED << app, fsFiles, fsDirs, li_shp, li_tab, li_kml, li_gml,
                    li_geoj, li_raster, li_gdb, li_kml_defined, li_is_tuple,
                    num_folders, browsetarg, val, status, pc, foldertarget,
                    walkStack, snaps, exc >>

\* ligeofiles of thread t, lines 491-502: the lists are reset, the browse
\* button disabled
TH_Reset(t) ==
    /\ threads[t].pc = "reset"
    /\ li_shp' = << >>
    /\ li_tab' = << >>
    /\ li_kml' = << >>
    /\ li_gml' = << >>
    /\ li_geoj' = << >>
    /\ li_raster' = << >>
    /\ li_kml_defined' = TRUE
    /\ li_is_tuple' = FALSE
    /\ browsetarg' = "DISABLED"
    /\ status' = [ text |-> "gui_prog1", counts |-> << >> ]
    /\ threads' = [ threads EXCEPT ![t].pc = "walk",
                                   ![t].walkStack =
                                       IF isdir(threads[t].foldertarget)
                                       THEN << threads[t].foldertarget >>
                                       ELSE << >> ]
    /\ UNCHANGED << legacy, stdout >>
    /\ UNCHANGED << readerVars, driverVars >>
    /\ UNCHANGED << app, fsFiles, fsDirs, li_gdb, num_folders, target, output,
                    val, pc, foldertarget, walkStack, runs, snaps, exc >>

\* the rank, in a listing of root, of the first name unicode() cannot decode
\* as ASCII; one past the end when there is none
FirstLegacy(root, names) ==
    LET ranks == { i \in DOMAIN names : join(root, names[i]) \in legacy }
    IN  IF ranks = {} THEN Len(names) + 1
        ELSE CHOOSE i \in ranks : \A j \in ranks : i <= j

\* ligeofiles of thread t, lines 503-559: one iteration of the os.walk loop.
\* For a name unicode() cannot decode the handler joins the root and the
\* name decoded as latin1, then prints the path: the print raises
\* UnicodeEncodeError where sys.stdout encodes to ASCII, nothing catches it
\* and the thread ends there. Where the print succeeds the loop goes on with
\* the decoded path, under which no companion of a shapefile or of a table is
\* found (the decoded name is not the name on disk)
TH_VisitDir(t) ==
    /\ threads[t].pc = "walk"
    /\ threads[t].walkStack # << >>
    /\ \E root \in { Head(threads[t].walkStack) } :
       \E kind \in { buckets(root) } :
       \E dirs \in { Enumerated(SubDirNames(root)) },
          files \in { Enumerated(FileNames(root)) } :
       \E kd \in { FirstLegacy(root, dirs) }, kf \in { FirstLegacy(root, files) } :
       \E raised \in { stdout = "ascii" /\ (kd <= Len(dirs) \/ kf <= Len(files)) } :
       \E seen_d \in { IF raised THEN SubSeq(dirs, 1, kd - 1) ELSE dirs },
          seen_f \in { IF ~raised THEN files
                       ELSE IF kd <= Len(dirs) THEN << >>
                       ELSE SubSeq(files, 1, kf - 1) } :
       \E plain_f \in { SelectSeq(seen_f, LAMBDA f : join(root, f) \notin legacy) } :
             /\ num_folders' = num_folders + Len(dirs)
             /\ li_gdb' = li_gdb \o appended_gdb(root, seen_d)
             /\ li_shp' = li_shp \o appended(root, plain_f, kind, "shp")
             /\ li_tab' = li_tab \o appended(root, plain_f, kind, "tab")
             /\ li_kml' = li_kml \o appended(root, seen_f, kind, "kml")
             /\ li_gml' = li_gml \o appended(root, seen_f, kind, "gml")
             /\ li_geoj' = li_geoj \o appended(root, seen_f, kind, "geoj")
             /\ li_raster' = li_raster \o appended(root, seen_f, kind, "raster")
             /\ threads' =
                   IF raised
                   THEN [ threads EXCEPT ![t].pc = "UnicodeEncodeError",
                                         ![t].walkStack = << >> ]
                   ELSE [ threads EXCEPT ![t].walkStack =
                             [ i \in DOMAIN dirs |-> join(root, dirs[i]) ]
                                 \o Tail(threads[t].walkStack) ]
    /\ UNCHANGED << legacy, stdout >>
    /\ UNCHANGED << readerVars, driverVars >>
    /\ UNCHANGED << app, fsFiles, fsDirs, li_kml_defined, li_is_tuple, target,
                    output, browsetarg, val, status, pc, foldertarget, walkStack,
                    runs, snaps, exc >>

\* ligeofiles of thread t, lines 561-596: the lists are sorted and tupled,
\* the counts published, the two buttons activated
TH_Finish(t) ==
    /\ threads[t].pc = "walk"
    /\ threads[t].walkStack = << >>
    /\ li_shp' = PySort(li_shp)
    /\ li_tab' = PySort(li_tab)
    /\ li_raster' = PySort(li_raster)
    /\ li_kml' = PySort(li_kml)
    /\ li_gml' = PySort(li_gml)
    /\ li_geoj' = PySort(li_geoj)
    /\ li_is_tuple' = TRUE
    /\ status' = [ text |-> "counts",
                   counts |-> << Len(li_shp), Len(li_tab), Len(li_kml),
                                 Len(li_gml), Len(li_geoj), Len(li_raster),
                                 num_folders >> ]
    /\ browsetarg' = "ACTIVE"
    /\ val' = "ACTIVE"
    /\ threads' = [ threads EXCEPT ![t].pc = "done" ]
    /\ UNCHANGED << legacy, stdout >>
    /\ UNCHANGED << readerVars, driverVars >>
    /\ UNCHANGED << app, fsFiles, fsDirs, li_gdb, li_kml_defined, num_folders,
                    target, output, pc, foldertarget, walkStack, runs, snaps, exc >>

\* one step of thread t, whichever its position allows
ThreadStep(t) ==
    /\ t \in DOMAIN threads
    /\ TH_Reset(t) \/ TH_VisitDir(t) \/ TH_Finish(t)

\* the launch button, created active with command process: a click is
\* handled by the main loop whatever the ligeofiles threads are doing, and
\* process hands over to process_files when the type chosen is 1
process ==
    /\ app = "DicoGIS"
    /\ val = "ACTIVE"
    /\ Process_Files

(***************************************************************************)
(* The specifications.                                                     *)
(***************************************************************************)
TreeOK ==
    /\ fsFiles \in SUBSET FileUniverse
    /\ fsDirs \in SUBSET DirUniverse
    /\ Cardinality(fsFiles) + Cardinality(fsDirs) <= MaxEntries
    /\ \A f \in fsFiles : isdir(dirname(f))

\* the window after its constructor
Constructed ==
    /\ li_shp = << >>
    /\ li_tab = << >>
    /\ li_raster = << >>
    /\ li_gdb = << >>
    /\ li_kml = << >>
    /\ li_gml = << >>
    /\ li_geoj = << >>
    /\ li_kml_defined = FALSE
    /\ li_is_tuple = FALSE
    /\ num_folders = 0
    /\ target = << >>
    /\ output = << >>
    /\ browsetarg = "ACTIVE"
    /\ val = IF app = "DicoGIS" THEN "ACTIVE" ELSE "DISABLED"
    /\ status = [ text |-> "", counts |-> << >> ]
    /\ pc = "idle"
    /\ foldertarget = << >>
    /\ walkStack = << >>
    /\ runs = 0
    /\ snaps = << >>
    /\ exc = "none"

\* no reader has been called
ReadersIdle ==
    /\ dico_bands = EmptyDict
    /\ dico_before = EmptyDict
    /\ op = "none"
    /\ gdalOpen = "unasked"
    /\ ogrOpen = "unasked"
    /\ rexc = "none"
    /\ srs_flags = {}
    /\ held = {}

\* the launch button has not been pressed, no thread has been started
DriverIdle ==
    /\ typo = 1
    /\ opt = {}
    /\ scan_pc = "idle"
    /\ scan_todo = << >>
    /\ line_vectors = 1
    /\ line_rasters = 1
    /\ feuy1 = << >>
    /\ feuy2 = << >>
    /\ read_log = << >>
    /\ scan_exc = "none"
    /\ self_dico_layer = EmptyDict
    /\ self_dico_fields = EmptyDict
    /\ launches = 0
    /\ dico_err = EmptyDict
    /\ threads = << >>
    /\ legacy = {}
    /\ stdout = "utf8"

\* the classifier: the window of either program over any tree
Init ==
    /\ app \in { "DicoGIS", "DicoShapes" }
    /\ TreeOK
    /\ Constructed
    /\ dico = EmptyDict
    /\ ReadersIdle
    /\ DriverIdle

Next ==
    \/ \E foldername \in FolderChoices : SetPathTarg(foldername)
    \/ LG_Reset
    \/ LG_VisitDir
    \/ LG_Finish
    \/ \E foldername \in FolderChoices : DS_SetPathTarg(foldername)
    \/ DS_VisitDir
    \/ DS_Finish

Spec == Init /\ [][Next]_vars

\* the readers: resources are read one after another
InitReaders ==
    /\ app = "DicoGIS"
    /\ fsFiles = {}
    /\ fsDirs = {}
    /\ Constructed
    /\ dico = EmptyDict
    /\ ReadersIdle
    /\ DriverIdle

NextReaders ==
    \/ Clear_Records
    \/ Read_Rasters
    \/ Read_GeoPDF

SpecReaders == InitReaders /\ [][NextReaders]_vars

\* the erratum builders: a builder takes any dictionary; the records of the
\* model hold any of these keys
OldRecord ==
    [ name |-> << "o", ".", "t", "i", "f" >>,
      folder |-> << "/", "o" >>,
      error |-> "old",
      num_fields |-> "old",
      format |-> "old",
      band_1 |-> EmptyDict ]

ErratumRecords == { [ k \in K |-> OldRecord[k] ] : K \in SUBSET DOMAIN OldRecord }

InitErratum ==
    /\ app = "DicoGIS"
    /\ fsFiles = {}
    /\ fsDirs = {}
    /\ Constructed
    /\ dico \in ErratumRecords
    /\ ReadersIdle
    /\ DriverIdle

NextErratum ==
    \/ Call_InfosRasters_erratum
    \/ Call_ReadGeoPDF_erratum
    \/ Call_Utils_erratum

SpecErratum == InitErratum /\ [][NextErratum]_vars

\* the SRS classification: any answers of the six category tests
InitSrs ==
    /\ app = "DicoGIS"
    /\ fsFiles = {}
    /\ fsDirs = {}
    /\ Constructed
    /\ dico = EmptyDict
    /\ dico_bands = EmptyDict
    /\ dico_before = EmptyDict
    /\ op = "none"
    /\ gdalOpen = "ok"
    /\ ogrOpen = "unasked"
    /\ rexc = "none"
    /\ srs_flags \in SUBSET SrsTestSet
    /\ held = {}
    /\ DriverIdle

NextSrs ==
    \/ Call_InfosRasters_infos_geom
    \/ Call_ReadGeoPDF_infos_geom

SpecSrs == InitSrs /\ [][NextSrs]_vars

\* the scan: the launch button is pressed over candidate lists a traversal
\* has left, sorted
ExtOf ==
    [ shp |-> EXT_shp, tab |-> EXT_tab, kml |-> EXT_kml, gml |-> EXT_gml,
      geoj |-> EXT_geojson, rast |-> << ".", "t", "i", "f" >> ]

ScanList(fmt, n) == [ k \in 1..n |-> Root \o << "/", Letters[k] >> \o ExtOf[fmt] ]

InitScan ==
    /\ app = "DicoGIS"
    /\ fsFiles = {}
    /\ fsDirs = {}
    /\ \E n \in [ FormatSet -> 0..MaxScan ] :
          /\ n["shp"] + n["tab"] + n["kml"] + n["gml"] + n["geoj"] + n["rast"] <= MaxScan
          /\ li_shp = ScanList("shp", n["shp"])
          /\ li_tab = ScanList("tab", n["tab"])
          /\ li_kml = ScanList("kml", n["kml"])
          /\ li_gml = ScanList("gml", n["gml"])
          /\ li_geoj = ScanList("geoj", n["geoj"])
          /\ li_raster = ScanList("rast", n["rast"])
    /\ li_gdb = << >>
    /\ li_kml_defined = TRUE
    /\ li_is_tuple = FALSE
    /\ num_folders = 1
    /\ target = Root
    /\ output = Root
    /\ browsetarg = "ACTIVE"
    /\ val = "ACTIVE"
    /\ status = [ text |-> "counts", counts |-> << >> ]
    /\ pc = "idle"
    /\ foldertarget = Root
    /\ walkStack = << >>
    /\ runs = 1
    /\ snaps = << >>
    /\ exc = "none"
    /\ dico = EmptyDict
    /\ ReadersIdle
    /\ DriverIdle

NextScan ==
    \/ Process_Files
    \/ PF_Vector
    \/ PF_Raster
    \/ PF_Save
    \/ Process_Db
    \/ PDB_Layer
    \/ PDB_Save

SpecScan == InitScan /\ [][NextScan]_vars

\* the threads: the window over a tree, the browse button clicked again
\* and again
InitThreads ==
    /\ app = "DicoGIS"
    /\ TreeOK
    /\ Constructed
    /\ dico = EmptyDict
    /\ ReadersIdle
    /\ DriverIdle

NextThreads ==
    \/ \E foldername \in FolderChoices : TH_SetPathTarg(foldername)
    \/ \E t \in DOMAIN threads : TH_Reset(t)
    \/ \E t \in DOMAIN threads : TH_VisitDir(t)
    \/ \E t \in DOMAIN threads : TH_Finish(t)

SpecThreads == InitThreads /\ [][NextThreads]_vars

\* the fields: either program writes the row of a layer of any fields
InitFields ==
    /\ app \in { "DicoGIS", "DicoShapes" }
    /\ fsFiles = {}
    /\ fsDirs = {}
    /\ Constructed
    /\ dico = EmptyDict
    /\ ReadersIdle
    /\ typo = 1
    /\ opt = {}
    /\ scan_pc = "idle"
    /\ scan_todo = << >>
    /\ line_vectors = 1
    /\ line_rasters = 1
    /\ feuy1 = << >>
    /\ feuy2 = << >>
    /\ read_log = << >>
    /\ scan_exc = "none"
    /\ self_dico_layer = EmptyDict
    /\ self_dico_fields \in SeqsUpTo([ type : NativeTypes, enc : { "ascii", "latin1" } ],
                                      MaxFields)
    /\ launches = 0
    /\ dico_err = EmptyDict
    /\ threads = << >>
    /\ legacy = {}
    /\ stdout = "utf8"

NextFields == Call_dictionarize

SpecFields == InitFields /\ [][NextFields]_vars

\* the threads under fair scheduling: the window over a small tree, some of
\* whose names need the fallback decoding, with either kind of standard
\* output; every thread that can take a step eventually takes it
InitFair ==
    /\ app = "DicoGIS"
    /\ TreeOK
    /\ Cardinality(fsFiles) + Cardinality(fsDirs) <= MaxTree
    /\ Constructed
    /\ dico = EmptyDict
    /\ ReadersIdle
    /\ typo = 1
    /\ opt = {}
    /\ scan_pc = "idle"
    /\ scan_todo = << >>
    /\ line_vectors = 1
    /\ line_rasters = 1
    /\ feuy1 = << >>
    /\ feuy2 = << >>
    /\ read_log = << >>
    /\ scan_exc = "none"
    /\ self_dico_layer = EmptyDict
    /\ self_dico_fields = EmptyDict
    /\ launches = 0
    /\ dico_err = EmptyDict
    /\ threads = << >>
    /\ legacy \in SUBSET (fsFiles \cup fsDirs)
    /\ stdout \in { "utf8", "ascii" }

SpecFair ==
    /\ InitFair
    /\ [][NextThreads]_vars
    /\ \A t \in 1..MaxRuns : WF_vars(ThreadStep(t))

\* the launch button and the threads: the window over a folder that holds a
\* shapefile with its three companions, alone or with one more file; the
\* browse button and the launch button clicked in any order
InitLaunch ==
    /\ InitThreads
    /\ fsDirs = {}
    /\ { Root \o << "/", "a", ".", "s", "h", "p" >>,
         Root \o << "/", "a", ".", "d", "b", "f" >>,
         Root \o << "/", "a", ".", "s", "h", "x" >>,
         Root \o << "/", "a", ".", "p", "r", "j" >> } \subseteq fsFiles

NextLaunch ==
    \/ NextThreads
    \/ process

SpecLaunch == InitLaunch /\ [][NextLaunch]_vars

(***************************************************************************)
(* Vocabulary of the properties of the classifier.                         *)
(***************************************************************************)
\* p ends with the extension e, in any letter case
HasExt(p, e) ==
    /\ Len(p) > Len(e)
    /\ Lower(SubSeq(p, Len(p) - Len(e) + 1, Len(p))) = e

\* the path of p without its extension e
Stem(p, e) == SubSeq(p, 1, Len(p) - Len(e))

\* a file with the base name of p and the extension e, in any letter case
SiblingAnyCase(p, own, e) ==
    \E f \in fsFiles : Len(f) = Len(Stem(p, own)) + Len(e)
                         /\ SubSeq(f, 1, Len(Stem(p, own))) = Stem(p, own)
                         /\ HasExt(f, e)

\* a file with the base name of p and the extension e, all lower or all upper
SiblingPlainCase(p, own, lower, upper) ==
    Stem(p, own) \o lower \in fsFiles \/ Stem(p, own) \o upper \in fsFiles

ShpFiles == { p \in fsFiles : HasExt(p, EXT_shp) }

TabFiles == { p \in fsFiles : HasExt(p, EXT_tab) }

\* a sidecar is missing when no file of that name exists in any letter case
ShpIncomplete(p) ==
    \E e \in { EXT_dbf, EXT_shx, EXT_prj } : ~SiblingAnyCase(p, EXT_shp, e)

TabIncomplete(p) ==
    \E e \in { EXT_dat, EXT_map, EXT_id } : ~SiblingAnyCase(p, EXT_tab, e)

Elems(li) == { li[i] : i \in DOMAIN li }

Occurrences(li, p) == Cardinality({ i \in DOMAIN li : li[i] = p })

AllLists == << li_shp, li_tab, li_kml, li_gml, li_geoj, li_raster, li_gdb >>

InSomeList(p) == \E k \in DOMAIN AllLists : p \in Elems(AllLists[k])

\* ascending: no element is followed by a smaller one
Ascending(li) == \A i \in 1..(Len(li) - 1) : ~StrLess(li[i + 1], li[i])

NoDuplicate(li) == \A i, j \in DOMAIN li : li[i] = li[j] => i = j

\* a ligeofiles call has completed and none is running
Completed == pc = "idle" /\ snaps # << >> /\ exc = "none"

\* ... and it walked the tree
CompletedTree == Completed /\ foldertarget = Root

(***************************************************************************)
(* C1: a .shp file that lacks one of its .dbf, .shx, .prj siblings, and a  *)
(* .tab file that lacks one of its .dat, .map, .id siblings, is in none of *)
(* the lists of the classifier (DicoGIS and DicoShapes), at any time.      *)
(***************************************************************************)
C1_IncompleteExcluded ==
    /\ \A p \in ShpFiles : ShpIncomplete(p) => ~InSomeList(p)
    /\ \A p \in TabFiles : TabIncomplete(p) => ~InSomeList(p)

\* a traversal of a tree has completed in which a shapefile had two of its
\* three sidecars and a MapInfo table lacked a sidecar
C1_Witness ==
    /\ CompletedTree
    /\ \E p \in ShpFiles :
         Cardinality({ e \in { EXT_dbf, EXT_shx, EXT_prj } :
                          SiblingAnyCase(p, EXT_shp, e) }) = 2
    /\ \E p \in TabFiles : TabIncomplete(p)

(***************************************************************************)
(* C2: when DicoGIS.ligeofiles has completed on the tree, whatever the     *)
(* order of the walk, every shapefile whose three sidecars exist (each     *)
(* with its extension all lower or all upper case, the forms the tests     *)
(* of lines 529-531 name) is exactly once in li_shp, and li_shp is in      *)
(* ascending order.                                                        *)
(***************************************************************************)
ShpComplete(p) ==
    /\ SiblingPlainCase(p, EXT_shp, EXT_dbf, EXT_DBF)
    /\ SiblingPlainCase(p, EXT_shp, EXT_shx, EXT_SHX)
    /\ SiblingPlainCase(p, EXT_shp, EXT_prj, EXT_PRJ)

SameLists(a, b) ==
    /\ a.shp = b.shp /\ a.tab = b.tab /\ a.kml = b.kml /\ a.gml = b.gml
    /\ a.geoj = b.geoj /\ a.raster = b.raster /\ a.gdb = b.gdb

C3_Idempotent ==
    app = "DicoGIS" =>
        \A i \in 1..(Len(snaps) - 1) :
            snaps[i].folder = snaps[i + 1].folder => SameLists(snaps[i], snaps[i + 1])

(***************************************************************************)
(* C4: the sidecar requirement is case-insensitive: when ligeofiles has    *)
(* completed on the tree, a .shp file whose .dbf, .shx and .prj siblings   *)
(* exist in any letter case of the extension is in li_shp.                 *)
(***************************************************************************)
C4_AnyCaseAccepted ==
    CompletedTree => \A p \in ShpFiles : ~ShpIncomplete(p) => p \in Elems(li_shp)

(***************************************************************************)
(* C5: when DicoGIS.ligeofiles has completed, each of the seven lists is   *)
(* in ascending order and holds no path twice.                             *)
(***************************************************************************)
C5_SortedNoDuplicate ==
    (app = "DicoGIS" /\ Completed) =>
        \A k \in DOMAIN AllLists : Ascending(AllLists[k]) /\ NoDuplicate(AllLists[k])

(***************************************************************************)
(* C6: the directory count a traversal reports depends on the folder       *)
(* walked only: two traversals of the same folder report the same count.   *)
(***************************************************************************)
C6_CountOfThisTraversal ==
    app = "DicoGIS" =>
        \A i, j \in DOMAIN snaps :
            snaps[i].folder = snaps[j].folder => snaps[i].num_folders = snaps[j].num_folders
(***************************************************************************)
(* Vocabulary of the properties of the readers.                            *)
(***************************************************************************)
ReaderCalled == op \in { "InfosRasters", "ReadGeoPDF" }

\* the last reader opened its dataset and went through its band loop
BandsRead ==
    /\ gdalOpen = "ok"
    /\ \/ op = "InfosRasters" /\ rexc = "none"
       \/ op = "ReadGeoPDF" /\ "err_gdal" \in DOMAIN dico

\* something was recorded for band b
BandPopulated(b) ==
    IF op = "InfosRasters"
    THEN \E what \in { "Min", "Max", "NoData" } : BandKey(b, what) \in DOMAIN dico_bands
    ELSE BandEntry(b) \in DOMAIN dico

\* the keys under which band and nested-layer data are stored in a record
DataKeys ==
    { BandEntry(b) : b \in 1..MaxBands }
      \cup { LayerEntry(i, l.name) : i \in range(0, MaxLayers), l \in LayerUniverse }

ErratumKeys == { "name", "folder", "error" }

\* the last call was a call of an erratum builder
ErratumCalled == op \notin { "none", "InfosRasters", "ReadGeoPDF" }

\* the last call added, removed or changed no key but name, folder, error
ErratumFrame ==
    \A k \in (DOMAIN dico \cup DOMAIN dico_before) \ ErratumKeys :
        /\ k \in DOMAIN dico
        /\ k \in DOMAIN dico_before
        /\ dico[k] = dico_before[k]

(***************************************************************************)
(* C7: a reader that has opened a dataset of n bands and gone through its  *)
(* band loop has recorded band information for every band 1..n.            *)
(***************************************************************************)
C7_EveryBandPopulated ==
    BandsRead => \A b \in 1..dico["num_bands"] : BandPopulated(b)

(***************************************************************************)
(* C8: when gdal.Open answers None, InfosRasters returns without raising,  *)
(* with name, folder and error in the record and an empty band dictionary. *)
(***************************************************************************)
C8_OpenFailureRecorded ==
    (op = "InfosRasters" /\ gdalOpen = "none") =>
        /\ rexc = "none"
        /\ ErratumKeys \subseteq DOMAIN dico
        /\ dico_bands = EmptyDict

(***************************************************************************)
(* C9: every erratum builder sets name, folder and error on the record it  *)
(* is called on, and only those: the builders of the file readers return   *)
(* with the three keys set, and no builder of any dataset kind adds,       *)
(* removes or changes another key.                                         *)
(***************************************************************************)
C9_ErratumSetsOnlyThree ==
    ErratumCalled =>
        /\ ErratumFrame
        /\ op \in { "InfosRasters.erratum", "ReadGeoPDF.erratum", "Utils.erratum flat" } =>
              rexc = "none" /\ ErratumKeys \subseteq DOMAIN dico

(***************************************************************************)
(* C10: after a read, a record with error set holds no band entry and no   *)
(* nested-layer entry, and the band dictionary is empty.                   *)
(***************************************************************************)
C10_ErrorRecordHasNoData ==
    (ReaderCalled /\ "error" \in DOMAIN dico) =>
        /\ DOMAIN dico \cap DataKeys = {}
        /\ dico_bands = EmptyDict
(***************************************************************************)
(* Vocabulary of the properties of the SRS classification.                 *)
(***************************************************************************)
\* infos_geom of a reader has been called and has returned
SrsClassified ==
    /\ op \in { "InfosRasters.infos_geom", "ReadGeoPDF.infos_geom" }
    /\ rexc = "none"

\* the label of the first test, in the order of srsmetod, that answers 1
FirstCategory ==
    SrsLabels[CHOOSE i \in DOMAIN SrsTests :
                 /\ SrsTests[i] \in srs_flags
                 /\ \A j \in 1..(i - 1) : SrsTests[j] \notin srs_flags]

(***************************************************************************)
(* C11: whatever tests answer 1, the srs_type a reader records is the      *)
(* label of the first of them in the order Compound, Geocentric,           *)
(* Geographic, Local, Projected, Vertical.                                 *)
(***************************************************************************)
C11_FirstFlagWins ==
    (SrsClassified /\ srs_flags # {}) => dico["srs_type"] = FirstCategory

(***************************************************************************)
(* C12: for a spatial reference flagged Projected and Geographic (these    *)
(* two tests answer 1), the srs_type recorded is Projected.                *)
(***************************************************************************)
C12_ProjectedOverGeographic ==
    (SrsClassified /\ srs_flags = { "IsGeographic", "IsProjected" }) =>
        dico["srs_type"] = "srs_proj"

\* the PDF reader has classified such a reference
C12_Witness ==
    /\ op = "ReadGeoPDF.infos_geom"
    /\ rexc = "none"
    /\ srs_flags = { "IsGeographic", "IsProjected" }
    /\ "srs_type" \in DOMAIN dico

(***************************************************************************)
(* C13: when none of the six tests answers 1, infos_geom of every reader   *)
(* returns without raising and records the not-referenced label as         *)
(* srs_type.                                                               *)
(***************************************************************************)
C13_NotReferencedRecorded ==
    (op \in { "InfosRasters.infos_geom", "ReadGeoPDF.infos_geom" } /\ srs_flags = {}) =>
        /\ rexc = "none"
        /\ "srs_type" \in DOMAIN dico
        /\ dico["srs_type"] = "srs_nr"
(***************************************************************************)
(* C14: in ReadGeoPDF the two views are attempted independently: when      *)
(* gdal.Open fails, ogr.Open is still called, and when ogr.Open fails,     *)
(* gdal.Open has been called.                                              *)
(***************************************************************************)
C14_ViewsIndependent ==
    op = "ReadGeoPDF" =>
        /\ gdalOpen \in { "none", "raises" } => ogrOpen # "unasked"
        /\ ogrOpen \in { "none", "raises" } => gdalOpen # "unasked"

(***************************************************************************)
(* Vocabulary of the properties of the layers of a container.              *)
(***************************************************************************)
\* ReadGeoPDF has gone through the layers of the vector view
LayersEnumerated == op = "ReadGeoPDF" /\ ogrOpen = "ok" /\ rexc = "none"

\* the keys of the record under which a nested layer sub-record is stored
LayerKeys == { k \in DOMAIN dico : \E i \in 0..MaxLayers : \E l \in LayerUniverse :
                                     k = LayerEntry(i, l.name) }

\* the key of the sub-record of the layer of index i
LayerKeyOf(i) == LayerEntry(i, dico["layers_names"][i + 1])

RECURSIVE SumOver(_, _)
SumOver(n, what) ==
    IF n = 0 THEN 0 ELSE SumOver(n - 1, what) + dico[LayerKeyOf(n - 1)][what]

(***************************************************************************)
(* C15: when ReadGeoPDF has enumerated the n layers of a container,        *)
(* layers_count = n, the record holds exactly n layer sub-records, one     *)
(* under the key of every layer index, and total_fields and total_objs are *)
(* the sums of num_fields and of num_obj over these sub-records.           *)
(***************************************************************************)
C15_LayerRollups ==
    LayersEnumerated =>
        \E n \in { Len(dico["layers_idx"]) } :
            /\ dico["layers_count"] = n
            /\ dico["layers_idx"] = [ i \in 1..n |-> i - 1 ]
            /\ Len(dico["layers_names"]) = n
            /\ Cardinality(LayerKeys) = n
            /\ \A i \in range(0, n) : LayerKeyOf(i) \in DOMAIN dico
            /\ dico["total_fields"] = SumOver(n, "num_fields")
            /\ dico["total_objs"] = SumOver(n, "num_obj")

\* a container of several layers of the same name, with fields and objects
C15_Witness ==
    /\ LayersEnumerated
    /\ dico["layers_count"] >= 2
    /\ dico["layers_names"][1] = dico["layers_names"][2]
    /\ dico["total_fields"] >= 2
    /\ dico["total_objs"] >= 1
(***************************************************************************)
(* Vocabulary of the properties of the scan.                               *)
(***************************************************************************)
\* the last process call was a scan of files that read at least one resource
FilesScanRead == typo = 1 /\ launches > 0 /\ read_log # << >>

\* the last process call is over
ScanOver == scan_pc # "files" /\ scan_pc # "db"

\* the resources the readers were called on, in the order of the calls
ReadSources == [ k \in 1..Len(read_log) |-> read_log[k].src ]

(***************************************************************************)
(* C16: in a scan of files, a resource that cannot be opened or parsed     *)
(* never stops the loops: when the scan is over, every resource of the     *)
(* enabled lists has been read and the save step has been reached.         *)
(***************************************************************************)
C16_BadResourceNeverHalts ==
    (FilesScanRead /\ ScanOver) =>
        /\ scan_pc = "saved"
        /\ scan_todo = << >>
        /\ ReadSources = [ k \in 1..Len(LoopsOf(1, opt)) |-> LoopsOf(1, opt)[k].src ]

\* the last process call was a scan of files that reached the save step
FilesScanSaved == typo = 1 /\ scan_pc = "saved"

\* the reader calls whose row goes to the vectors sheet, to the rasters sheet
VectorReads == SelectSeq(read_log, LAMBDA r : splitext(r.src)[2] # ExtOf["rast"])

RasterReads == SelectSeq(read_log, LAMBDA r : splitext(r.src)[2] = ExtOf["rast"])

\* the sheet holds one row per reader call, in the order of the calls, each
\* with the name, the folder and the error of its resource
RowPerRead(sheet, reads) ==
    /\ DOMAIN sheet = 1..Len(reads)
    /\ \A k \in 1..Len(reads) :
          /\ sheet[k].name = basename(reads[k].src)
          /\ sheet[k].folder = dirname(reads[k].src)
          /\ sheet[k].error = reads[k].error

(***************************************************************************)
(* C17: when a scan of files completes, the export holds exactly one row   *)
(* per resource of the enabled formats, failed resources included with     *)
(* their error kind, each on its own row, in the order of the sorted       *)
(* candidate lists.                                                        *)
(***************************************************************************)
C17_OneRowPerResource ==
    FilesScanSaved =>
        /\ ReadSources = [ k \in 1..Len(LoopsOf(1, opt)) |-> LoopsOf(1, opt)[k].src ]
        /\ RowPerRead(feuy1, VectorReads)
        /\ RowPerRead(feuy2, RasterReads)

\* a completed scan with two vector rows, one of a failed resource, and a
\* raster row
C17_Witness ==
    /\ FilesScanSaved
    /\ Len(VectorReads) >= 2
    /\ \E k \in 1..Len(VectorReads) : VectorReads[k].error # ""
    /\ \E k \in 1..Len(VectorReads) : VectorReads[k].error = ""
    /\ Len(RasterReads) >= 1

(***************************************************************************)
(* C18: every read of a resource or of a layer, in a scan of files and in  *)
(* a scan of a database alike, starts from an empty record and an empty    *)
(* field or band collection: the reader finds no key of an earlier read.   *)
(***************************************************************************)
C18_FreshRecords == \A k \in 1..Len(read_log) : read_log[k].found = {}

(***************************************************************************)
(* C19: every native dataset handle a reader opens is released before the  *)
(* reader returns, on every exit path: when the constructor of a reader is *)
(* left, its object refers to no open handle, so none is open when the     *)
(* next resource is read.                                                  *)
(***************************************************************************)
C19_HandlesReleased == ReaderCalled => held = {}

(***************************************************************************)
(* Vocabulary of the properties of the threads.                            *)
(***************************************************************************)
\* the ligeofiles threads that were started and have not finished
InFlight == { t \in DOMAIN threads : threads[t].pc # "done" }

(***************************************************************************)
(* C20: at most one classification traversal is in flight at any time:     *)
(* while a ligeofiles thread started by setpathtarg has not finished, no   *)
(* second one is started on the same candidate lists.                      *)
(***************************************************************************)
C20_OneTraversalInFlight == Cardinality(InFlight) <= 1

(***************************************************************************)
(* Vocabulary of the properties of the progress status.                    *)
(***************************************************************************)
\* the walk of the running ligeofiles call of DicoGIS is over, the lists are
\* not yet sorted, and the walk found candidates
WalkEndedWithCandidates ==
    /\ app = "DicoGIS"
    /\ pc = "walk"
    /\ walkStack = << >>
    /\ Len(li_shp) + Len(li_tab) + Len(li_kml) + Len(li_gml) + Len(li_geoj)
         + Len(li_raster) > 0

(***************************************************************************)
(* C21: the counts are published as the walk proceeds: when the walk of a  *)
(* traversal that found candidates is over, and before its final result is *)
(* published, the progress status shows a count.                           *)
(***************************************************************************)
C21_IntermediateCount == WalkEndedWithCandidates => status.text = "counts"

(***************************************************************************)
(* C22: when the root given to the classifier does not exist or cannot be  *)
(* read, the classification ends in a failure: no ligeofiles call on such  *)
(* a root completes as a normal traversal.                                 *)
(***************************************************************************)
C22_MissingRootFails == ~(app = "DicoGIS" /\ Completed /\ ~isdir(foldertarget))

(***************************************************************************)
(* Vocabulary of the properties of the fields of a layer.                  *)
(***************************************************************************)
\* the row of a layer has been written
Dictionarized == scan_pc = "dictionarized"

\* the fields whose native type the loops do not test
OtherFields ==
    { i \in DOMAIN self_dico_fields :
        self_dico_fields[i].type \notin { "Integer", "Real", "String", "Date" } }

\* the fields whose name fails text encoding
AffectedFields ==
    { i \in DOMAIN self_dico_fields : self_dico_fields[i].enc # "ascii" }

\* the fields the row reports
ReportedFields == { feuy1[1].champs[k].field : k \in DOMAIN feuy1[1].champs }

(***************************************************************************)
(* C23: a field whose native type is none of Integer, Real, String, Date   *)
(* is reported with a catch-all type: the call does not fail, the field is *)
(* reported, and its label is the one of no tested type.                   *)
(***************************************************************************)
C23_OtherTypeCatchAll ==
    (Dictionarized /\ OtherFields # {}) =>
        /\ scan_exc = "none"
        /\ \A i \in OtherFields :
              \E k \in DOMAIN feuy1[1].champs :
                 /\ feuy1[1].champs[k].field = i
                 /\ feuy1[1].champs[k].tipo \notin
                       { TipoOf(app, type, "unbound") :
                           type \in { "Integer", "Real", "String", "Date" } }


\* the fields the encoding note of the layer names
NotedFields ==
    IF "name" \in DOMAIN dico_err
    THEN { dico_err["name"][k] : k \in DOMAIN dico_err["name"] }
    ELSE {}

\* C24: when names of fields of a layer fail text encoding, the layer is not
\* aborted and no field is dropped: every field of the layer is in the row,
\* and the encoding note of the layer names each affected field (a later
\* affected field does not erase the note of an earlier one).
C24_EncodingNoteComplete ==
    (Dictionarized /\ AffectedFields # {}) =>
        /\ scan_exc = "none"
        /\ ReportedFields = DOMAIN self_dico_fields
        /\ AffectedFields \subseteq NotedFields


(***************************************************************************)
(* C25: when the library fails to compute the statistics of a band, the    *)
(* band reader of the PDF does not crash and still records what is         *)
(* available for the band: every band entry of a record holds the no-data  *)
(* value, the scale, the unit type and the size of the colour table.       *)
(***************************************************************************)
AlwaysAvailable == { "NoData", "Scale", "UnitType", "CTabCount" }

C25_PartialBandRecorded ==
    (op = "ReadGeoPDF" /\ gdalOpen = "ok" /\ rexc = "none") =>
        \A b \in 1..MaxBands :
            BandEntry(b) \in DOMAIN dico =>
                \A what \in AlwaysAvailable :
                    BandKey(b, what) \in DOMAIN dico[BandEntry(b)]

(***************************************************************************)
(* Vocabulary of the properties of the launch.                             *)
(***************************************************************************)
\* this step is a launch that went past the two checks and configexcel: the
\* loops of the scan are about to read the candidate lists
ScanStarts == launches' = launches + 1 /\ scan_pc' = "files"

(***************************************************************************)
(* C26: a file scan never runs while a classification traversal is in      *)
(* flight: in every interleaving of the main loop and the ligeofiles       *)
(* threads, the candidate lists the scan reads are the complete, sorted    *)
(* result of a finished traversal.                                         *)
(***************************************************************************)
C26_ScanAfterTraversal ==
    [][ScanStarts => (InFlight = {} /\ li_is_tuple)]_vars

(***************************************************************************)
(* C27: under fair scheduling of the threads, every classification         *)
(* traversal that is started eventually finishes, which re-enables the     *)
(* browse button it disabled at its start, whatever entries the tree       *)
(* holds, names that need the fallback decoding included.                  *)
(***************************************************************************)
C27_TraversalFinishes ==
    \A t \in 1..MaxRuns :
        (t \in DOMAIN threads) ~> (t \in DOMAIN threads /\ threads[t].pc = "done")

(***************************************************************************)
(* C28: when the folder dialog is cancelled, setpathtarg leaves the result *)
(* of the previous classification as it is: no traversal is started on the *)
(* empty folder name, and the candidate lists keep their values.           *)
(***************************************************************************)
C28_CancelKeepsResult ==
    app = "DicoGIS" =>
        /\ foldertarget = << >> => pc = "idle"
        /\ \A i \in 1..(Len(snaps) - 1) :
              snaps[i + 1].folder = << >> => SameLists(snaps[i], snaps[i + 1])


(***************************************************************************)
(* Vocabulary of the properties of the set-up of the workbook.             *)
(***************************************************************************)
\* process_files has been launched, and no launch of the other kind since
LaunchedFiles == typo = 1 /\ launches > 0

\* some format whose option is checked has a candidate
EnabledCandidates == \E f \in opt : ListOf(f) # << >>

(***************************************************************************)
(* C29: the set-up of the workbook and the start of the scan succeed for   *)
(* every classification result in which some enabled format has a          *)
(* candidate, results without raster or without shapefile and table        *)
(* included; when no enabled format has a candidate, process_files reports *)
(* a user error and returns without creating a workbook.                   *)
(***************************************************************************)
C29_SetupMatchesCandidates ==
    LaunchedFiles =>
        /\ EnabledCandidates => scan_exc # "ValueError"
        /\ ~EnabledCandidates => (scan_pc = "idle" /\ scan_exc = "none")


(***************************************************************************)
(* C30: for a band of a PDF whose statistics were computed, the recorded   *)
(* maximum is the declared maximum when there is one and the computed      *)
(* statistic otherwise, as for the minimum: it is never absent.            *)
(***************************************************************************)
\* the bands of the record of the last PDF read whose statistics were stored
BandsWithStatistics ==
    { b \in 1..MaxBands :
         /\ BandEntry(b) \in DOMAIN dico
         /\ BandKey(b, "Mean") \in DOMAIN dico[BandEntry(b)] }

C30_MaximumNeverAbsent ==
    (op = "ReadGeoPDF" /\ gdalOpen = "ok" /\ rexc = "none") =>
        \A b \in BandsWithStatistics :
            dico[BandEntry(b)][BandKey(b, "Max")] \in { "GetMaximum", "stats[1]" }
====
